---- MODULE Spec2Model ----
(***************************************************************************)
(* zodchy-fastapi, one specification per part of the library:              *)
(*   Spec            the response loop of Endpoint.__call__.func and       *)
(*                   _group_stream (routing/endpoint.py, response.py)      *)
(*   FairSpec        the same, the handler's coroutine kept running        *)
(*   SpecCall        Interceptor and ErrorInterceptor calls (response.py)  *)
(*   SpecRequest     request parameters and DeclarativeAdapter             *)
(*                   (request.py)                                          *)
(*   SpecEndpoint    the request side of Endpoint.__call__.func, two       *)
(*                   requests on one Endpoint (routing/endpoint.py)        *)
(*   SpecMiddleware  JsonExceptionHandler (middleware.py)                  *)
(*   SpecSerializing ResponseMapping (serializing.py)                      *)
(*   SpecView        ViewMapping (serializing.py)                          *)
(*   SpecRegistry    RoutesRegistry registration and iteration             *)
(*   SpecCollect     RoutesRegistry._collect_module_functions              *)
(*   SpecWalk        RoutesRegistry._walk_filesystem (routing/registry.py) *)
(*   SpecHandler     PanchoStreamHandler (handlers/pancho.py)              *)
(*   SpecSecurity    JwtAuthMiddleware (middleware/security.py)            *)
(*   SpecFactory     make_request_class / make_response_class (factory.py) *)
(* The specifications share the variables; the parts one of them does not  *)
(* exercise stay idle.                                                     *)
(***************************************************************************)
EXTENDS Integers, Sequences, FiniteSets, TLC

VARIABLES
    variant,        \* which _group_stream runs: "endpoint" (routing/endpoint.py) or "adapter" (response.py)
    stream,         \* the pipeline's message stream, a sequence of messages
    interceptors,   \* desired types of the declared interceptors, in declaration order
    pos,            \* number of messages pulled from the stream so far
    message,        \* _group_stream's local `message`
    batch,          \* _group_stream's local `batch` (None or a Batch)
    genpc,          \* where the _group_stream generator stands
    pc,             \* where the handler stands
    emitted,        \* the batches yielded so far, in order
    invoked,        \* the interceptor calls made so far, in order
    response,       \* the handler's return value
    declared,       \* constructor arguments of the interceptor under call
    callee,         \* the interceptor object built from them
    args,           \* the messages the interceptor is called with
    returned,       \* what the interceptor call returned
    kwargs,         \* the parameters passed to the request adapter, in call order
    type_cast_map,  \* the request adapter's _type_cast_map
    tasks,          \* what the request adapter returned
    built,          \* the messages the request adapter constructed, in order
    serialized,     \* what each parameter's serializer returned, as it stands after the call
    pipeline_registry, \* the codes of the registered pipelines
    schema,         \* the endpoint's Parameter objects, shared by all requests
    func,           \* per request, the frame of its handler coroutine
    set_values,     \* the set_value calls made so far, in order
    adapter_calls,  \* the request adapter calls made so far, in order
    pipeline_runs,  \* the pipeline calls made so far, in order
    exc,            \* the exception handed to the JsonExceptionHandler
    handled,        \* what the exception handler returned
    message_serializer, \* the Serializer's _message_serializer (ResponseMapping, ViewMapping)
    mapping_args,   \* the messages the mapping is called with
    mapped,         \* what the mapping returned
    serializer_calls, \* the messages the serializer was called with, in order
    registry,       \* RoutesRegistry._registry
    calls,          \* the register_route / register_route_function calls made, in order
    invocations,    \* the route functions invoked so far, in order
    yielded,        \* what each iteration of the registry yielded
    module,         \* the module handed to _collect_module_functions
    scanned,        \* how _collect_module_functions ended
    walk,           \* where _walk_filesystem stands: status, nesting depth, exception
    warnings,       \* the modules a warning was printed for, in order
    seen,           \* the directory entries _walk_filesystem has dealt with, in order
    events,         \* the event stream handed to the PanchoStreamHandler
    desired_event,  \* the event type the caller of the stream handler wants
    errors_http_schema, \* the stream handler's constructor argument, (code, error type) items in order
    examined,       \* number of events the stream handler has taken from the stream
    found,          \* the stream handler's local `result`
    handler_outcome, \* how the stream handler's call ended
    request,        \* the request handed to the JwtAuthMiddleware: path and Authorization header
    public_paths,   \* the middleware's _public_paths
    registers,      \* what the auth-context registrator returns
    next_calls,     \* the requests handed to call_next so far, in order
    auth_response,  \* what the middleware returned
    created         \* the type objects make_request_class / make_response_class created, in order

dispatchVars == <<variant, stream, interceptors, pos, message, batch, genpc, pc,
                  emitted, invoked, response>>
callVars == <<declared, callee, args, returned>>
requestVars == <<kwargs, type_cast_map, tasks, built, serialized>>

endpointVars == <<pipeline_registry, schema, func, set_values, adapter_calls, pipeline_runs>>

middlewareVars == <<exc, handled>>

serializingVars == <<message_serializer, mapping_args, mapped, serializer_calls>>

scanVars == <<module, scanned, walk, warnings, seen>>
registryVars == <<registry, calls, invocations, yielded, scanVars>>

handlerVars == <<events, desired_event, errors_http_schema, examined, found, handler_outcome>>

securityVars == <<request, public_paths, registers, next_calls, auth_response>>

factoryVars == <<created>>

auxVars == <<handlerVars, securityVars, factoryVars>>

vars == <<dispatchVars, callVars, requestVars, endpointVars, middlewareVars,
          serializingVars, registryVars, auxVars>>

\* what each component leaves alone
nonDispatchVars == <<callVars, requestVars, endpointVars, middlewareVars, serializingVars,
                    registryVars,
    auxVars>>
nonCallVars == <<dispatchVars, requestVars, endpointVars, middlewareVars, serializingVars,
                registryVars,
    auxVars>>
nonRequestVars == <<dispatchVars, callVars, endpointVars, middlewareVars, serializingVars,
                   registryVars,
    auxVars>>
nonEndpointVars == <<dispatchVars, callVars, kwargs, tasks, built, serialized, middlewareVars,
                    serializingVars, registryVars,
    auxVars>>
nonMiddlewareVars == <<dispatchVars, callVars, requestVars, endpointVars, serializingVars,
                      registryVars,
    auxVars>>
nonSerializingVars == <<dispatchVars, callVars, requestVars, endpointVars, middlewareVars,
                       registryVars,
    auxVars>>
nonRegistryVars == <<dispatchVars, callVars, requestVars, endpointVars, middlewareVars,
                    serializingVars,
    auxVars>>

coreVars == <<dispatchVars, callVars, requestVars, endpointVars, middlewareVars,
              serializingVars, registryVars>>
nonHandlerVars == <<coreVars, securityVars, factoryVars>>
nonSecurityVars == <<coreVars, handlerVars, factoryVars>>
nonFactoryVars == <<coreVars, handlerVars, securityVars>>

-----------------------------------------------------------------------------
(* Bounds *)

MaxStream == 3
MaxInterceptors == 2

-----------------------------------------------------------------------------
(* The class universe: single-inheritance classes, each with its base.     *)
(* "type" is the metaclass of every class; "object" is the root.           *)

Base ==
    [ object          |-> "object",
      type            |-> "object",
      Message         |-> "object",
      PayloadMessage  |-> "Message",
      DerivedMessage  |-> "PayloadMessage",
      Error           |-> "Message",
      PayloadError    |-> "Error",
      DerivedError    |-> "PayloadError" ]

Classes == DOMAIN Base

\* classes of the messages a pipeline may emit
StreamClasses == {"PayloadMessage", "DerivedMessage", "PayloadError"}

\* classes an interceptor may declare as its desired type
DesiredClasses == {"Message", "PayloadMessage", "DerivedMessage", "Error"}

\* cls.__mro__
RECURSIVE Mro(_)
Mro(cls) == IF cls = "object" THEN <<"object">> ELSE <<cls>> \o Mro(Base[cls])

\* issubclass(cls, other)
IsSubclass(cls, other) == \E i \in 1..Len(Mro(cls)) : Mro(cls)[i] = other

\* type(x) for a message x, and for a class object x
TypeOfMessage(m) == m.cls
TypeOfClass(cls) == "type"

\* isinstance(x, other), given type(x)
IsInstance(typeOfX, other) == IsSubclass(typeOfX, other)

-----------------------------------------------------------------------------
(* Batch *)

None == [none |-> TRUE]
NoType == "NoneType"

\* Batch(*messages)
Batch(messages) == [messages |-> messages]

\* mutant of Batch.append: the appended message is dropped
BatchAppendDropping(b, m) == [messages |-> b.messages]

\* Batch.append
BatchAppend(b, m) == [messages |-> Append(b.messages, m)]

\* Batch.message_type
MessageType(b) ==
    IF Len(b.messages) > 0 THEN TypeOfMessage(b.messages[1]) ELSE NoType

-----------------------------------------------------------------------------
(* _group_stream: the test that decides whether `message` joins `batch`    *)

\* routing/endpoint.py: isinstance(message, batch.message_type)
EndpointJoins(b, m) ==
    MessageType(b) # NoType /\ IsInstance(TypeOfMessage(m), MessageType(b))

\* mutant of the adapter's test: the message itself, not its type, is tested
AdapterJoinsByMessage(b, m) ==
    MessageType(b) # NoType /\ IsInstance(TypeOfMessage(m), MessageType(b))

\* response.py: isinstance(type(message), batch.message_type)
AdapterJoins(b, m) ==
    MessageType(b) # NoType /\ IsInstance(TypeOfClass(TypeOfMessage(m)), MessageType(b))

Joins(b, m) == IF variant = "endpoint" THEN EndpointJoins(b, m) ELSE AdapterJoins(b, m)

-----------------------------------------------------------------------------
(* Dispatch: the interceptor scan                                          *)

\* mutant of the scan's condition: exact type equality instead of issubclass
MatchesExactType(b, desired) ==
    MessageType(b) # NoType /\ MessageType(b) = desired

\* mutant of the scan's condition: issubclass with its arguments swapped
MatchesReversed(b, desired) ==
    MessageType(b) # NoType /\ IsSubclass(desired, MessageType(b))

\* the condition of the scan: issubclass(batch.message_type, desired_type)
Matches(b, desired) ==
    MessageType(b) # NoType /\ IsSubclass(MessageType(b), desired)

\* mutant of the scan: the last matching interceptor instead of the first
LastMatch(b) ==
    IF \E i \in 1..Len(interceptors) :
            MessageType(b) # NoType /\ IsSubclass(MessageType(b), interceptors[i])
    THEN CHOOSE i \in 1..Len(interceptors) :
            /\ IsSubclass(MessageType(b), interceptors[i])
            /\ \A j \in (i + 1)..Len(interceptors) : ~IsSubclass(MessageType(b), interceptors[j])
    ELSE 0

\* the index of the interceptor the scan stops at, 0 when it stops at none
FirstMatch(b) ==
    IF \E i \in 1..Len(interceptors) : Matches(b, interceptors[i])
    THEN CHOOSE i \in 1..Len(interceptors) :
            /\ Matches(b, interceptors[i])
            /\ \A j \in 1..(i - 1) : ~Matches(b, interceptors[j])
    ELSE 0

\* what interceptor i returns when called with *messages
InterceptorResult(i, messages) ==
    [kind |-> "response", interceptor |-> i, messages |-> messages]

Pending == [kind |-> "pending"]
NoResponse == [kind |-> "none"]
Idle == [kind |-> "idle"]

-----------------------------------------------------------------------------
(* Initial states *)

SeqsUpTo(S, n) == UNION {[1..k -> S] : k \in 0..n}

\* a stream of messages: message i has identity i and a class
Streams ==
    { [i \in 1..Len(cs) |-> [id |-> i, cls |-> cs[i]]] : cs \in SeqsUpTo(StreamClasses, MaxStream) }

\* the components a specification does not exercise stay idle
DispatchIdle ==
    /\ variant = "endpoint" /\ stream = <<>> /\ interceptors = <<>>
    /\ pos = 0 /\ message = None /\ batch = None
    /\ genpc = "end" /\ pc = "done"
    /\ emitted = <<>> /\ invoked = <<>> /\ response = Idle

CallIdle == declared = Idle /\ callee = Idle /\ args = <<>> /\ returned = Idle

RequestIdle ==
    /\ kwargs = <<>> /\ type_cast_map = <<>> /\ tasks = Idle /\ built = <<>>
    /\ serialized = <<>>

\* the components a specification does not exercise stay idle
EndpointIdle ==
    /\ pipeline_registry = {} /\ schema = <<>> /\ func = <<>>
    /\ set_values = <<>> /\ adapter_calls = <<>> /\ pipeline_runs = <<>>

MiddlewareIdle == exc = Idle /\ handled = Idle

SerializingIdle ==
    /\ message_serializer = Idle /\ mapping_args = <<>>
    /\ mapped = Idle /\ serializer_calls = <<>>

ScanIdle ==
    module = Idle /\ scanned = Idle /\ walk = Idle /\ warnings = <<>> /\ seen = <<>>

RegistryIdle ==
    /\ registry = <<>> /\ calls = <<>> /\ invocations = <<>> /\ yielded = <<>>
    /\ ScanIdle

HandlerIdle ==
    /\ events = <<>> /\ desired_event = Idle /\ errors_http_schema = <<>>
    /\ examined = 0 /\ found = Idle /\ handler_outcome = Idle

SecurityIdle ==
    /\ request = Idle /\ public_paths = Idle /\ registers = FALSE
    /\ next_calls = <<>> /\ auth_response = Idle

FactoryIdle == created = <<>>

AuxIdle == HandlerIdle /\ SecurityIdle /\ FactoryIdle

\* everything but the component a specification exercises
OtherIdle == MiddlewareIdle /\ SerializingIdle /\ RegistryIdle

NonDispatchIdle == CallIdle /\ RequestIdle /\ EndpointIdle /\ OtherIdle /\ AuxIdle
NonCallIdle == DispatchIdle /\ RequestIdle /\ EndpointIdle /\ OtherIdle /\ AuxIdle
NonRequestIdle == DispatchIdle /\ CallIdle /\ EndpointIdle /\ OtherIdle /\ AuxIdle
NonEndpointIdle ==
    /\ DispatchIdle /\ CallIdle /\ OtherIdle /\ AuxIdle
    /\ kwargs = <<>> /\ tasks = Idle /\ built = <<>> /\ serialized = <<>>
NonMiddlewareIdle ==
    DispatchIdle /\ CallIdle /\ RequestIdle /\ EndpointIdle /\ SerializingIdle /\ RegistryIdle
    /\ AuxIdle
NonSerializingIdle ==
    DispatchIdle /\ CallIdle /\ RequestIdle /\ EndpointIdle /\ MiddlewareIdle /\ RegistryIdle
    /\ AuxIdle
NonRegistryIdle ==
    DispatchIdle /\ CallIdle /\ RequestIdle /\ EndpointIdle /\ MiddlewareIdle /\ SerializingIdle
    /\ AuxIdle

CoreIdle == DispatchIdle /\ CallIdle /\ RequestIdle /\ EndpointIdle /\ OtherIdle
NonHandlerIdle == CoreIdle /\ SecurityIdle /\ FactoryIdle
NonSecurityIdle == CoreIdle /\ HandlerIdle /\ FactoryIdle
NonFactoryIdle == CoreIdle /\ HandlerIdle /\ SecurityIdle

Init ==
    /\ NonDispatchIdle
    /\ variant \in {"endpoint", "adapter"}
    /\ stream \in Streams
    /\ interceptors \in SeqsUpTo(DesiredClasses, MaxInterceptors)
    /\ pos = 0
    /\ message = None
    /\ batch = None
    /\ genpc = "run"
    /\ pc = "next"
    /\ emitted = <<>>
    /\ invoked = <<>>
    /\ response = Pending

-----------------------------------------------------------------------------
(* _group_stream, one loop iteration per action                            *)

\* the generator yields `b` to the handler and suspends at `at`
Yield(b, at) ==
    /\ emitted' = Append(emitted, b)
    /\ genpc' = at
    /\ pc' = "scan"

\* `batch is None`: open the first batch
GroupOpen ==
    /\ pc = "next" /\ genpc = "run" /\ pos < Len(stream)
    /\ batch = None
    /\ message' = stream[pos + 1]
    /\ pos' = pos + 1
    /\ batch' = Batch(<<stream[pos + 1]>>)
    /\ UNCHANGED <<variant, stream, interceptors, genpc, pc, emitted, invoked, response,
                 nonDispatchVars>>

\* the message joins the open batch
GroupAppend ==
    /\ pc = "next" /\ genpc = "run" /\ pos < Len(stream)
    /\ batch # None
    /\ Joins(batch, stream[pos + 1])
    /\ message' = stream[pos + 1]
    /\ pos' = pos + 1
    /\ batch' = BatchAppend(batch, stream[pos + 1])
    /\ UNCHANGED <<variant, stream, interceptors, genpc, pc, emitted, invoked, response,
                 nonDispatchVars>>

\* mutant of the yield in the loop: the generator drains the stream before
\* it yields the closed batch
GroupYieldDraining ==
    /\ pc = "next" /\ genpc = "run" /\ pos < Len(stream)
    /\ batch # None
    /\ ~Joins(batch, stream[pos + 1])
    /\ message' = stream[pos + 1]
    /\ pos' = Len(stream)
    /\ Yield(batch, "yielded_in_loop")
    /\ UNCHANGED <<variant, stream, interceptors, batch, invoked, response,
                 nonDispatchVars>>

\* the message does not join: the open batch is yielded, the generator
\* suspends holding `message`
GroupYield ==
    /\ pc = "next" /\ genpc = "run" /\ pos < Len(stream)
    /\ batch # None
    /\ ~Joins(batch, stream[pos + 1])
    /\ message' = stream[pos + 1]
    /\ pos' = pos + 1
    /\ Yield(batch, "yielded_in_loop")
    /\ UNCHANGED <<variant, stream, interceptors, batch, invoked, response,
                 nonDispatchVars>>

\* the stream ends with a batch open: it is yielded
GroupFlush ==
    /\ pc = "next" /\ genpc = "run" /\ pos = Len(stream)
    /\ batch # None
    /\ Yield(batch, "yielded_at_end")
    /\ UNCHANGED <<variant, stream, interceptors, pos, message, batch, invoked, response,
                 nonDispatchVars>>

\* the stream ends with no batch open: the generator ends, the handler
\* leaves its loop and returns None
GroupEmpty ==
    /\ pc = "next" /\ genpc = "run" /\ pos = Len(stream)
    /\ batch = None
    /\ genpc' = "end"
    /\ pc' = "done"
    /\ response' = NoResponse
    /\ UNCHANGED <<variant, stream, interceptors, pos, message, batch, emitted, invoked,
                 nonDispatchVars>>

-----------------------------------------------------------------------------
(* The handler's loop body                                                 *)

CurrentBatch == emitted[Len(emitted)]

\* mutant of the handler's loop body: the interceptor is called but the
\* handler does not return, it goes on with the next batch
InterceptWithoutReturn ==
    /\ pc = "scan"
    /\ FirstMatch(CurrentBatch) # 0
    /\ invoked' = Append(invoked, [interceptor |-> FirstMatch(CurrentBatch),
                                   messages |-> CurrentBatch.messages])
    /\ response' = InterceptorResult(FirstMatch(CurrentBatch), CurrentBatch.messages)
    /\ IF genpc = "yielded_in_loop"
       THEN batch' = Batch(<<message>>) /\ genpc' = "run" /\ pc' = "next"
       ELSE batch' = batch /\ genpc' = "end" /\ pc' = "done"
    /\ UNCHANGED <<variant, stream, interceptors, pos, message, emitted,
                 nonDispatchVars>>

\* an interceptor matches the yielded batch: it is called with the batch's
\* messages and the handler returns its result
Intercept ==
    /\ pc = "scan"
    /\ FirstMatch(CurrentBatch) # 0
    /\ invoked' = Append(invoked, [interceptor |-> FirstMatch(CurrentBatch),
                                   messages |-> CurrentBatch.messages])
    /\ response' = InterceptorResult(FirstMatch(CurrentBatch), CurrentBatch.messages)
    /\ pc' = "done"
    /\ UNCHANGED <<variant, stream, interceptors, pos, message, batch, genpc, emitted,
                 nonDispatchVars>>

\* no interceptor matches: the handler asks for the next batch and the
\* generator resumes after its yield in the loop
ResumeLoop ==
    /\ pc = "scan"
    /\ FirstMatch(CurrentBatch) = 0
    /\ genpc = "yielded_in_loop"
    /\ batch' = Batch(<<message>>)
    /\ genpc' = "run"
    /\ pc' = "next"
    /\ UNCHANGED <<variant, stream, interceptors, pos, message, emitted, invoked, response,
                 nonDispatchVars>>

\* no interceptor matches the last batch: the generator ends and the
\* handler returns None
ResumeEnd ==
    /\ pc = "scan"
    /\ FirstMatch(CurrentBatch) = 0
    /\ genpc = "yielded_at_end"
    /\ genpc' = "end"
    /\ pc' = "done"
    /\ response' = NoResponse
    /\ UNCHANGED <<variant, stream, interceptors, pos, message, batch, emitted, invoked,
                 nonDispatchVars>>

Next ==
    \/ GroupOpen
    \/ GroupAppend
    \/ GroupYield
    \/ GroupFlush
    \/ GroupEmpty
    \/ Intercept
    \/ ResumeLoop
    \/ ResumeEnd

Spec == Init /\ [][Next]_vars

\* the handler is a coroutine the event loop keeps running: over a finite
\* stream every `async for` step it waits for is eventually taken
FairSpec == Init /\ [][Next]_vars /\ WF_vars(Next)

-----------------------------------------------------------------------------
(* Interceptor and ErrorInterceptor (response.py)                          *)

DefaultStatusCode == 204
InternalErrorCode == 500

StatusCodes == {200, 202, 404}
ErrorStatusCodes == {404, 422}
ResponseTypes == {"JSONResponse", "PlainTextResponse"}
Serializers == {"values", "types"}

\* classes of the errors a pipeline may emit, and the classes a mapping may name
ErrorStreamClasses == {"Error", "PayloadError", "DerivedError"}
ErrorMappingClasses == {"Error", "PayloadError", "DerivedError"}

\* serializer(*messages): "values" lists the messages' identities in
\* argument order, "types" their class names
Serialize(serializer, messages) ==
    IF serializer = "values"
    THEN [values |-> [i \in 1..Len(messages) |-> messages[i].id]]
    ELSE [types |-> [i \in 1..Len(messages) |-> messages[i].cls]]

\* the `declare` argument: None, a status code, or (status code, model)
Declares ==
    {[tag |-> "none"]}
    \cup {[tag |-> "code", code |-> c] : c \in StatusCodes}
    \cup {[tag |-> "tuple", code |-> c, model |-> "ResponseModel"] : c \in StatusCodes}

\* the `response` argument: None or (response type, serializer)
Responses ==
    {[tag |-> "none"]}
    \cup {[tag |-> "tuple", response_type |-> r, serializer |-> f] :
            r \in ResponseTypes, f \in Serializers}

\* Interceptor.__init__
Interceptor(catch, declare, resp) ==
    [ class         |-> "Interceptor",
      desired_type  |-> catch,
      status_code   |-> IF declare.tag = "tuple" THEN declare.code
                        ELSE IF declare.tag = "code" THEN declare.code
                        ELSE DefaultStatusCode,
      model         |-> IF declare.tag = "tuple" THEN declare.model ELSE "None",
      serializer    |-> IF resp.tag = "tuple" THEN resp.serializer ELSE "None",
      response_type |-> IF resp.tag = "tuple" THEN resp.response_type ELSE "None" ]

\* Response(status_code=...): a response with an empty body
EmptyResponse(status_code) ==
    [type |-> "Response", status_code |-> status_code, content |-> "None"]

\* response_type(status_code=..., content=...)
BuildResponse(response_type, status_code, content) ==
    [type |-> response_type, status_code |-> status_code, content |-> content]

\* mutant of Interceptor.__call__: the serializer gets the first message only
InterceptorCallFirstOnly(self, messages) ==
    IF self.serializer = "None" \/ self.response_type = "None"
    THEN [type |-> "Response", status_code |-> self.status_code, content |-> "None"]
    ELSE [type |-> self.response_type, status_code |-> self.status_code,
          content |-> Serialize(self.serializer,
                                IF messages = <<>> THEN <<>> ELSE <<messages[1]>>)]

\* Interceptor.__call__
InterceptorCall(self, messages) ==
    IF self.serializer = "None" \/ self.response_type = "None"
    THEN EmptyResponse(self.status_code)
    ELSE BuildResponse(self.response_type, self.status_code,
                       Serialize(self.serializer, messages))

\* ErrorInterceptor.__init__: the mapping keeps its insertion order
ErrorInterceptor(mapping, resp) ==
    [ class         |-> "ErrorInterceptor",
      mapping       |-> mapping,
      response_type |-> resp.response_type,
      serializer    |-> resp.serializer,
      model         |-> "ErrorResponseModel" ]

\* ErrorInterceptor._search_for_status_code: the mapping's items in
\* insertion order, the first whose class the error is an instance of
SearchForStatusCode(self, error) ==
    LET hits == {i \in 1..Len(self.mapping) :
                    IsInstance(TypeOfMessage(error), self.mapping[i].error_type)}
    IN  IF hits = {} THEN InternalErrorCode
        ELSE self.mapping[CHOOSE i \in hits : \A j \in hits : i <= j].status_code

\* ErrorInterceptor.__call__
ErrorInterceptorCall(self, errors) ==
    BuildResponse(self.response_type, SearchForStatusCode(self, errors[1]),
                  Serialize(self.serializer, errors))

\* the mappings: sequences of (error class, status code) with distinct classes
ErrorMappings ==
    { m \in UNION {[1..k -> [error_type : ErrorMappingClasses, status_code : ErrorStatusCodes]] :
                      k \in 0..Cardinality(ErrorMappingClasses)} :
        \A i, j \in 1..Len(m) : i # j => m[i].error_type # m[j].error_type }

MessagesOf(classes, n) ==
    { [i \in 1..Len(cs) |-> [id |-> i, cls |-> cs[i]]] : cs \in SeqsUpTo(classes, n) }

InitCall ==
    /\ NonCallIdle
    /\ \/ /\ declared \in [class : {"Interceptor"}, catch : {"PayloadMessage"},
                           declare : Declares, response : Responses]
          /\ callee = Interceptor(declared.catch, declared.declare, declared.response)
          /\ args \in MessagesOf({"PayloadMessage", "DerivedMessage"}, MaxStream)
       \/ /\ declared \in [class : {"ErrorInterceptor"}, mapping : ErrorMappings,
                           response : Responses \ {[tag |-> "none"]}]
          /\ callee = ErrorInterceptor(declared.mapping, declared.response)
          /\ args \in MessagesOf(ErrorStreamClasses, MaxStream) \ {<<>>}
    /\ returned = Pending

\* interceptor(*messages)
CallInterceptor ==
    /\ returned = Pending
    /\ callee.class = "Interceptor"
    /\ returned' = InterceptorCall(callee, args)
    /\ UNCHANGED <<nonCallVars, declared, callee, args>>

\* error_interceptor(*errors)
CallErrorInterceptor ==
    /\ returned = Pending
    /\ callee.class = "ErrorInterceptor"
    /\ returned' = ErrorInterceptorCall(callee, args)
    /\ UNCHANGED <<nonCallVars, declared, callee, args>>

NextCall ==
    \/ CallInterceptor
    \/ CallErrorInterceptor

SpecCall == InitCall /\ [][NextCall]_vars

-----------------------------------------------------------------------------
(* Request parameters and DeclarativeAdapter (request.py)                  *)

MaxFanOut == 2

\* field names of the target message
Keys == {"a", "b"}

\* names of the declared parameters: "a" is a RouteParameter, the others
\* are ModelParameters
RouteNames == {"a"}
ModelNames == {"m", "n"}

\* the message type the adapter builds
TaskType == "SampleMessage"

\* Parameter._value before set_value: Ellipsis
Unset == [kind |-> "unset"]

\* a bound value is identified by the parameter it was bound to and, inside
\* a list payload, by its item; it arrives as a string, wrapped in nothing
Atom(name, item) == [param |-> name, item |-> item, t |-> "str", wraps |-> 0]

\* the types a value is cast with: int, for which int(int(v)) = int(v), and
\* a class that wraps its argument, for which Boxed(Boxed(v)) # Boxed(v)
Casters == {"int", "Boxed"}

\* field_type(value) for a type of type_cast_map, int(value) for a route type
Cast(caster, value) ==
    IF caster = "int" THEN [value EXCEPT !.t = "int"]
    ELSE [value EXCEPT !.t = caster, !.wraps = @ + 1]

\* dict literals
EmptyDict == [k \in {} |-> Unset]
DictOver(dom, name, item) == [k \in dom |-> Atom(name, item)]

\* the values that may be bound to a RouteParameter / a ModelParameter
RouteValues(name) == {[kind |-> "scalar", v |-> Atom(name, 0)]}

ListValues(name) ==
    UNION { {[i \in 1..k |-> DictOver(doms[i], name, i)] : doms \in [1..k -> SUBSET Keys]} :
                k \in 0..MaxFanOut }

ModelValues(name) ==
    {[kind |-> "dict", v |-> DictOver(dom, name, 0)] : dom \in SUBSET Keys}
    \cup {[kind |-> "list", v |-> l] : l \in ListValues(name)}

\* Parameter objects: RouteParameter(name, type=int, type_cast) and
\* ModelParameter(name), each with its bound value
RouteParameters(name) ==
    {[class |-> "RouteParameter", name |-> name, type_cast |-> FALSE, value |-> Unset]}
    \cup [class : {"RouteParameter"}, name : {name}, type_cast : BOOLEAN, value : RouteValues(name)]

ModelParameters(name) ==
    {[class |-> "ModelParameter", name |-> name, type_cast |-> FALSE, value |-> Unset]}
    \cup [class : {"ModelParameter"}, name : {name}, type_cast : {FALSE}, value : ModelValues(name)]

ParametersNamed(name) ==
    IF name \in RouteNames THEN RouteParameters(name) ELSE ModelParameters(name)

\* serialization results and exceptions
Dict(d) == [kind |-> "dict", v |-> d]
List(l) == [kind |-> "list", v |-> l]
Raised(error) == [kind |-> "raised", v |-> error]

\* RouteParameter._default_serializer
RouteSerializer(self, value) ==
    Dict([k \in {self.name} |-> IF self.type_cast THEN Cast("int", value.v) ELSE value.v])

\* ModelParameter._default_serializer on a dict or a list of dicts
\* (_dump_model returns a dict as it is)
ModelSerializer(self, value) ==
    IF value.kind = "list" THEN List(value.v) ELSE Dict(value.v)

\* mutant of Parameter.__call__: no check of _value, the Ellipsis is
\* serialized like a value
ParameterCallUnchecked(self) ==
    IF self.class = "RouteParameter"
    THEN RouteSerializer(self, IF self.value = Unset
                               THEN [kind |-> "scalar", v |-> Atom(self.name, 0)]
                               ELSE self.value)
    ELSE IF self.value = Unset THEN Dict(EmptyDict)
    ELSE ModelSerializer(self, self.value)

\* Parameter.__call__
ParameterCall(self) ==
    IF self.value = Unset THEN Raised("ValueError")
    ELSE IF self.class = "RouteParameter" THEN RouteSerializer(self, self.value)
    ELSE ModelSerializer(self, self.value)

\* mutant of `data |= _data`: keys already present keep their value
MergeKeepingFirst(d1, d2) ==
    [k \in DOMAIN d1 \cup DOMAIN d2 |-> IF k \in DOMAIN d1 THEN d1[k] ELSE d2[k]]

\* `data |= _data` and `{**d1, **d2}`: d2 wins on collision
Merge(d1, d2) ==
    [k \in DOMAIN d1 \cup DOMAIN d2 |-> IF k \in DOMAIN d2 THEN d2[k] ELSE d1[k]]

\* DeclarativeAdapter._type_cast: the dict after the in-place cast
TypeCast(map, data) ==
    [k \in DOMAIN data |-> IF k \in DOMAIN map THEN Cast(map[k], data[k]) ELSE data[k]]

\* self._message_type(**fields)
NewMessage(fields) == [cls |-> TaskType, payload |-> fields]

RECURSIVE CollectParameters(_, _, _)
\* the loop over kwargs.items(): `data` and `result` after it, or the
\* exception a parameter raised
CollectParameters(params, data, result) ==
    IF params = <<>> THEN [kind |-> "ok", data |-> data, result |-> result]
    ELSE LET _data == ParameterCall(params[1])
         IN  IF _data.kind = "raised" THEN _data
             ELSE IF _data.kind = "dict"
                  THEN CollectParameters(Tail(params), Merge(data, _data.v), result)
                  ELSE CollectParameters(Tail(params), data, List(_data.v))

RECURSIVE BuildMessages(_, _, _)
\* the list comprehension over `result`: _type_cast rewrites `data` and the
\* item in place before each message is built
BuildMessages(map, data, items) ==
    IF items = <<>> THEN <<>>
    ELSE LET cast_data == TypeCast(map, data)
             cast_item == TypeCast(map, items[1])
         IN  <<NewMessage(Merge(cast_data, cast_item))>>
                 \o BuildMessages(map, cast_data, Tail(items))

\* what the parameters' serializers returned, after the call: `result` is a
\* new list of the same dicts as the last list serialized, and the list
\* comprehension casts each of them in place; `data` is the adapter's own dict
SerializedAfterCall(map, params) ==
    LET collected == CollectParameters(params, EmptyDict, None)
        lists == {i \in 1..Len(params) : ParameterCall(params[i]).kind = "list"}
    IN  [i \in 1..Len(params) |->
            IF /\ collected.kind = "ok"
               /\ collected.result # None /\ collected.result.v # <<>>
               /\ i \in lists /\ \A j \in lists : j <= i
            THEN List([n \in 1..Len(collected.result.v) |->
                          TypeCast(map, collected.result.v[n])])
            ELSE ParameterCall(params[i])]

\* DeclarativeAdapter.__call__
DeclarativeAdapterCall(map, params) ==
    LET collected == CollectParameters(params, EmptyDict, None)
    IN  IF collected.kind = "raised" THEN collected
        ELSE IF collected.result # None /\ collected.result.v # <<>>
             THEN [kind |-> "returned",
                   v |-> BuildMessages(map, collected.data, collected.result.v)]
             ELSE [kind |-> "returned",
                   v |-> <<NewMessage(TypeCast(map, collected.data))>>]

\* the calls: any parameters of distinct names, in any order
DistinctNameSeqs ==
    { ns \in UNION {[1..k -> RouteNames \cup ModelNames] :
                        k \in 0..Cardinality(RouteNames \cup ModelNames)} :
        \A i, j \in 1..Len(ns) : i # j => ns[i] # ns[j] }

RECURSIVE KwargsOver(_)
KwargsOver(ns) ==
    IF ns = <<>> THEN {<<>>}
    ELSE {<<p>> \o rest : p \in ParametersNamed(ns[1]), rest \in KwargsOver(Tail(ns))}

TypeCastMaps == {EmptyDict} \cup {[k \in {"a"} |-> caster] : caster \in Casters}

InitRequest ==
    /\ NonRequestIdle
    /\ \E ns \in DistinctNameSeqs : kwargs \in KwargsOver(ns)
    /\ type_cast_map \in TypeCastMaps
    /\ tasks = Pending
    /\ built = <<>>
    /\ serialized = <<>>

\* adapter(**params): every message constructed is in the returned list; an
\* exception leaves the loop over the parameters before any is constructed
CallAdapter ==
    /\ tasks = Pending
    /\ LET outcome == DeclarativeAdapterCall(type_cast_map, kwargs)
       IN  /\ tasks' = outcome
           /\ built' = IF outcome.kind = "returned" THEN outcome.v ELSE <<>>
           /\ serialized' = SerializedAfterCall(type_cast_map, kwargs)
    /\ UNCHANGED <<nonRequestVars, kwargs, type_cast_map>>

NextRequest == CallAdapter

SpecRequest == InitRequest /\ [][NextRequest]_vars

-----------------------------------------------------------------------------
(* The handler of one Endpoint serving concurrent requests                 *)
(* (routing/endpoint.py Endpoint.__call__.func, up to the response loop)   *)

\* the requests in flight
Requests == {1, 2}

\* Endpoint._pipline_code
PipelineCode == "test_pipeline"

\* the pipeline registries a handler may be built over
PipelineRegistries == {{}, {"other_pipeline"}, {PipelineCode}}

\* names of the parameters an endpoint may declare and a request may carry
EndpointNames == {"a", "m"}

\* a value bound by request r
RequestAtom(r, name, item) ==
    [param |-> name, item |-> item, t |-> "str", wraps |-> 0, request |-> r]

\* what the framework passes request r for a parameter of the given name
RequestValues(r, name) ==
    IF name \in RouteNames
    THEN {[kind |-> "scalar", v |-> RequestAtom(r, name, 0)]}
    ELSE {[kind |-> "dict", v |-> [k \in dom |-> RequestAtom(r, name, 0)]] :
              dom \in {{"b"}, Keys}}
         \cup {[kind |-> "list", v |-> [i \in 1..k |-> [key \in {"b"} |-> RequestAtom(r, name, i)]]] :
                  k \in 0..MaxFanOut}

\* **kwargs of request r: any of the names, each with one of its values
RequestKwargs(r) ==
    UNION { { f \in [ns -> UNION {RequestValues(r, n) : n \in ns}] :
                  \A n \in ns : f[n] \in RequestValues(r, n) } :
            ns \in SUBSET EndpointNames }

\* the Parameter objects of a request describer, none bound yet
SchemaOver(ns) ==
    [j \in 1..Len(ns) |->
        [class |-> IF ns[j] \in RouteNames THEN "RouteParameter" ELSE "ModelParameter",
         name |-> ns[j], type_cast |-> FALSE, value |-> Unset]]

Schemas ==
    { SchemaOver(ns) : ns \in { q \in DistinctNameSeqs : \A j \in 1..Len(q) : q[j] \in EndpointNames } }

\* the frame of func(**kwargs) before its first statement runs
Frame(kw) ==
    [kwargs |-> kw, pc |-> "called", i |-> 1, params |-> <<>>, tasks |-> Pending, raised |-> None]

\* the positions at which a handler coroutine does not hold the event loop:
\* not yet run, suspended in `async for`, or over
Suspended == {"called", "stream", "done", "raised"}

\* mutant of the scheduling: handlers preempt each other anywhere
CanRunAnywhere(r) == TRUE

\* func has no await before `async for`, so a handler that has started runs
\* on until it gets there, and nothing else runs meanwhile
CanRun(r) == \A o \in Requests \ {r} : func[o].pc \in Suspended

\* mutant of the registry check: every code passes
PipelineAssumedRegistered == TRUE

\* not (self._pipline_code not in pipeline_registry)
PipelineRegistered == PipelineCode \in pipeline_registry

InitEndpoint ==
    /\ NonEndpointIdle
    /\ type_cast_map \in TypeCastMaps
    /\ pipeline_registry \in PipelineRegistries
    /\ schema \in Schemas
    /\ \E kw1 \in RequestKwargs(1), kw2 \in RequestKwargs(2) :
           func = [r \in Requests |-> Frame(IF r = 1 THEN kw1 ELSE kw2)]
    /\ set_values = <<>>
    /\ adapter_calls = <<>>
    /\ pipeline_runs = <<>>

\* lines 50-53: the registry check, then params = {}
CheckPipeline(r) ==
    /\ func[r].pc = "called"
    /\ CanRun(r)
    /\ func' = [func EXCEPT ![r] =
                   IF PipelineRegistered
                   THEN [@ EXCEPT !.pc = "bind", !.i = 1, !.params = <<>>]
                   ELSE [@ EXCEPT !.pc = "raised", !.raised = "RuntimeError"]]
    /\ UNCHANGED <<nonEndpointVars, type_cast_map, pipeline_registry, schema,
                   set_values, adapter_calls, pipeline_runs>>

\* lines 54-57: one iteration of the loop over the schema
BindParameter(r) ==
    /\ func[r].pc = "bind"
    /\ func[r].i <= Len(schema)
    /\ CanRun(r)
    /\ LET i == func[r].i
           name == schema[i].name
       IN  IF name \in DOMAIN func[r].kwargs
           THEN /\ schema' = [schema EXCEPT ![i].value = func[r].kwargs[name]]
                /\ set_values' = Append(set_values,
                                        [request |-> r, name |-> name, value |-> func[r].kwargs[name]])
                /\ func' = [func EXCEPT ![r].i = i + 1, ![r].params = Append(@, i)]
           ELSE /\ func' = [func EXCEPT ![r].i = i + 1]
                /\ UNCHANGED <<schema, set_values>>
    /\ UNCHANGED <<nonEndpointVars, type_cast_map, pipeline_registry, adapter_calls, pipeline_runs>>

\* mutant of `params`: the whole schema is passed, bound by this request or not
ParamsOfWholeSchema(r) == schema

\* the Parameter objects params holds, as they are now
ParamsOf(r) == [j \in 1..Len(func[r].params) |-> schema[func[r].params[j]]]

\* line 58: tasks = self.request.get_adapter()(**params)
CallRequestAdapter(r) ==
    /\ func[r].pc = "bind"
    /\ func[r].i > Len(schema)
    /\ CanRun(r)
    /\ LET outcome == DeclarativeAdapterCall(type_cast_map, ParamsOf(r))
       IN  /\ adapter_calls' = Append(adapter_calls, [request |-> r, params |-> ParamsOf(r)])
           /\ func' = [func EXCEPT ![r] =
                          IF outcome.kind = "raised"
                          THEN [@ EXCEPT !.pc = "raised", !.raised = outcome.v]
                          ELSE [@ EXCEPT !.pc = "adapted", !.tasks = outcome.v]]
    /\ UNCHANGED <<nonEndpointVars, type_cast_map, pipeline_registry, schema,
                   set_values, pipeline_runs>>

\* line 60: stream = pipeline_registry[self._pipline_code](*tasks)
RunPipeline(r) ==
    /\ func[r].pc = "adapted"
    /\ CanRun(r)
    /\ pipeline_runs' = Append(pipeline_runs, [request |-> r, tasks |-> func[r].tasks])
    /\ func' = [func EXCEPT ![r].pc = "stream"]
    /\ UNCHANGED <<nonEndpointVars, type_cast_map, pipeline_registry, schema,
                   set_values, adapter_calls>>

\* lines 62-69: the response loop, suspended at each pull from the stream
AwaitStream(r) ==
    /\ func[r].pc = "stream"
    /\ CanRun(r)
    /\ func' = [func EXCEPT ![r].pc = "done"]
    /\ UNCHANGED <<nonEndpointVars, type_cast_map, pipeline_registry, schema,
                   set_values, adapter_calls, pipeline_runs>>

NextEndpoint ==
    \E r \in Requests :
        \/ CheckPipeline(r)
        \/ BindParameter(r)
        \/ CallRequestAdapter(r)
        \/ RunPipeline(r)
        \/ AwaitStream(r)

SpecEndpoint == InitEndpoint /\ [][NextEndpoint]_vars

-----------------------------------------------------------------------------
(* JsonExceptionHandler (middleware.py)                                    *)

MaxErrors == 2
MaxDepth == 3

\* components of a validation error's location, and error messages
LocNames == {"body", "name"}
Msgs == {"Missing", "Invalid"}

\* the locations: non-empty paths of up to MaxDepth components
Locs == UNION {[1..n -> LocNames] : n \in 1..MaxDepth}

\* exc.errors(): each error with its "loc" and "msg"
ValidationErrors == [loc : Locs, msg : Msgs]

\* the classes of the exceptions reaching default_exception_handler, and
\* what they were raised with
ExceptionClasses == {"RuntimeError", "KeyError", "Exception"}
ExceptionArgs == {<<>>, <<"boom">>}

\* a details tree: a str is a leaf, a dict a node over its keys
Leaf(msg) == [str |-> msg]
Node(children) == [dict |-> children]
IsDict(value) == "dict" \in DOMAIN value

\* str(exc) of an exception raised with args
Str(e) == [str_of |-> e.cls, args |-> e.args]

\* mutant of _build_data: the details are dropped
BuildDataWithoutDetails(code, text, details) ==
    [code |-> code, message |-> text, details |-> Node(EmptyDict)]

\* _build_data: `details or {}`
BuildData(code, text, details) ==
    [code |-> code, message |-> text,
     details |-> IF details = None \/ details = Node(EmptyDict) THEN Node(EmptyDict) ELSE details]

\* JSONResponse(status_code=..., content=...)
JSONResponse(status_code, content) ==
    [kind |-> "response", status_code |-> status_code, content |-> content]

\* JsonExceptionHandler.default_exception_handler
DefaultExceptionHandlerCall(e) ==
    JSONResponse(500, BuildData(500, Str(e), Node([k \in {"type"} |-> Leaf(e.cls)])))

RECURSIVE Nestify(_, _)
\* _nestify: {data[0]: value}, value nested under data[1:] first
Nestify(data, value) ==
    IF Len(data) > 1
    THEN Node([k \in {data[1]} |-> Nestify(Tail(data), value)])
    ELSE Node([k \in {data[1]} |-> value])

\* `d1[k] |= v`: the keys of v laid over d1[k], one level deep
Update(d, v) ==
    Node([k \in DOMAIN d.dict \cup DOMAIN v.dict |->
             IF k \in DOMAIN v.dict THEN v.dict[k] ELSE d.dict[k]])

\* _merge: for each key of d2, `d1[k] |= v` when d1 has the key and v is a
\* dict (a TypeError when d1[k] is a str), else `d1[k] = v`
MergeDetails(d1, d2) ==
    IF \E k \in DOMAIN d2.dict :
           k \in DOMAIN d1.dict /\ IsDict(d2.dict[k]) /\ ~IsDict(d1.dict[k])
    THEN Raised("TypeError")
    ELSE Node([k \in DOMAIN d1.dict \cup DOMAIN d2.dict |->
                  IF k \notin DOMAIN d2.dict THEN d1.dict[k]
                  ELSE IF k \in DOMAIN d1.dict /\ IsDict(d2.dict[k])
                       THEN Update(d1.dict[k], d2.dict[k])
                       ELSE d2.dict[k]])

RECURSIVE MergeErrors(_, _)
\* the loop of validation_exception_handler over exc.errors()
MergeErrors(details, errors) ==
    IF errors = <<>> THEN details
    ELSE LET merged == MergeDetails(details, Nestify(errors[1].loc, Leaf(errors[1].msg)))
         IN  IF merged = Raised("TypeError") THEN merged
             ELSE MergeErrors(merged, Tail(errors))

\* JsonExceptionHandler.validation_exception_handler
ValidationExceptionHandlerCall(e) ==
    LET details == MergeErrors(Node(EmptyDict), e.errors)
    IN  IF details = Raised("TypeError") THEN details
        ELSE JSONResponse(422, BuildData(422, "Validation Error", details))

InitMiddleware ==
    /\ NonMiddlewareIdle
    /\ \/ \E errors \in SeqsUpTo(ValidationErrors, MaxErrors) :
              exc = [cls |-> "RequestValidationError", errors |-> errors]
       \/ exc \in [cls : ExceptionClasses, args : ExceptionArgs]
    /\ handled = Pending

\* app.add_exception_handler(RequestValidationError, ...) at work
ValidationExceptionHandler ==
    /\ handled = Pending
    /\ exc.cls = "RequestValidationError"
    /\ handled' = ValidationExceptionHandlerCall(exc)
    /\ UNCHANGED <<nonMiddlewareVars, exc>>

\* app.add_exception_handler(Exception, ...) at work
DefaultExceptionHandler ==
    /\ handled = Pending
    /\ exc.cls # "RequestValidationError"
    /\ handled' = DefaultExceptionHandlerCall(exc)
    /\ UNCHANGED <<nonMiddlewareVars, exc>>

NextMiddleware == ValidationExceptionHandler \/ DefaultExceptionHandler

SpecMiddleware == InitMiddleware /\ [][NextMiddleware]_vars

-----------------------------------------------------------------------------
(* ResponseMapping (serializing.py)                                        *)

\* the message serializers a ResponseMapping may be built with; None is
\* "no serializer"
MessageSerializers == {None, [f |-> "dump"], [f |-> "name"]}

\* self._message_serializer(message)
SerializeMessage(serializer, m) ==
    IF serializer.f = "dump" THEN [dumped |-> m.id, cls |-> m.cls] ELSE [name |-> m.cls]

\* `self._message_serializer(message) if self._message_serializer else message`
SerializedOrSame(serializer, m) ==
    IF serializer # None THEN SerializeMessage(serializer, m) ELSE m

\* a value that is not a list
Item(value) == [kind |-> "item", v |-> value]

\* mutant of ResponseMapping.__call__: a list whatever the number of messages
ResponseMappingAlwaysList(serializer, messages) ==
    [data |-> List([i \in 1..Len(messages) |-> SerializedOrSame(serializer, messages[i])])]

\* ResponseMapping.__call__
ResponseMappingCall(serializer, messages) ==
    IF Len(messages) = 1
    THEN [data |-> Item(SerializedOrSame(serializer, messages[1]))]
    ELSE [data |-> List([i \in 1..Len(messages) |-> SerializedOrSame(serializer, messages[i])])]

\* the serializer calls ResponseMapping.__call__ makes, in order
SerializerCallsOf(serializer, messages) ==
    IF serializer # None THEN messages ELSE <<>>

InitSerializing ==
    /\ NonSerializingIdle
    /\ message_serializer \in MessageSerializers
    /\ mapping_args \in Streams
    /\ mapped = Pending
    /\ serializer_calls = <<>>

\* ResponseMapping(message_serializer)(*messages)
CallResponseMapping ==
    /\ mapped = Pending
    /\ mapped' = ResponseMappingCall(message_serializer, mapping_args)
    /\ serializer_calls' = SerializerCallsOf(message_serializer, mapping_args)
    /\ UNCHANGED <<nonSerializingVars, message_serializer, mapping_args>>

NextSerializing == CallResponseMapping

SpecSerializing == InitSerializing /\ [][NextSerializing]_vars

-----------------------------------------------------------------------------
(* ViewMapping (serializing.py), a Serializer like ResponseMapping: the    *)
(* same _message_serializer, called with views                             *)

\* the views a ViewMapping may be called with: data() is an object the
\* serializer can be applied to, meta() is None, an empty dict or a dict
Views ==
    [ data : [id : {1, 2}, cls : {"rows"}],
      meta : {[kind |-> "none", keys |-> {}], [kind |-> "dict", keys |-> {}],
              [kind |-> "dict", keys |-> {"total"}]} ]

\* bool(x) for None and for a dict
Truthy(x) == x.kind # "none" /\ x.keys # {}

\* mutant of ViewMapping.__call__: meta is included whatever it is
ViewMappingAlwaysMeta(serializer, messages) ==
    IF Len(messages) = 0 THEN [data |-> List(<<>>)]
    ELSE [data |-> Item(SerializedOrSame(serializer, messages[1].data)),
          meta |-> messages[1].meta]

\* ViewMapping.__call__
ViewMappingCall(serializer, messages) ==
    IF Len(messages) = 0 THEN [data |-> List(<<>>)]
    ELSE LET view == messages[1]
             data == Item(SerializedOrSame(serializer, view.data))
         IN  IF Truthy(view.meta)
             THEN [data |-> data, meta |-> view.meta]
             ELSE [data |-> data]

InitView ==
    /\ NonSerializingIdle
    /\ message_serializer \in MessageSerializers
    /\ mapping_args \in SeqsUpTo(Views, MaxStream)
    /\ mapped = Pending
    /\ serializer_calls = <<>>

\* ViewMapping(message_serializer)(*messages)
CallViewMapping ==
    /\ mapped = Pending
    /\ mapped' = ViewMappingCall(message_serializer, mapping_args)
    /\ serializer_calls' =
           IF mapping_args # <<>> /\ message_serializer # None
           THEN <<mapping_args[1].data>> ELSE <<>>
    /\ UNCHANGED <<nonSerializingVars, message_serializer, mapping_args>>

NextView == CallViewMapping

SpecView == InitView /\ [][NextView]_vars

-----------------------------------------------------------------------------
(* RoutesRegistry (routing/registry.py)                                    *)

MaxRoutes == 3
MaxIterations == 2

\* Route objects handed to register_route, and route functions handed to
\* register_route_function
Routes == {[path |-> "/a"], [path |-> "/b"]}
RouteFunctions == {"f", "g"}

\* how often a route function has been invoked
Invoked(f, invs) == Cardinality({i \in 1..Len(invs) : invs[i] = f})

\* route_function(): a new Route at each call
MakeRoute(f, n) == [made_by |-> f, invocation |-> n]

\* mutant of register_route_function: the function itself is appended
AppendUninvoked(reg, f, invs) == Append(reg, [uninvoked |-> f])

\* self._registry.append(route_function())
AppendInvoked(reg, f, invs) == Append(reg, MakeRoute(f, Invoked(f, invs) + 1))

InitRegistry ==
    /\ NonRegistryIdle
    /\ registry = <<>>
    /\ calls = <<>>
    /\ invocations = <<>>
    /\ yielded = <<>>
    /\ ScanIdle

\* RoutesRegistry.register_route
RegisterRoute(route) ==
    /\ Len(calls) < MaxRoutes
    /\ registry' = Append(registry, route)
    /\ calls' = Append(calls, [op |-> "register_route", arg |-> route])
    /\ UNCHANGED <<nonRegistryVars, invocations, yielded, scanVars>>

\* RoutesRegistry.register_route_function
RegisterRouteFunction(f) ==
    /\ Len(calls) < MaxRoutes
    /\ registry' = AppendInvoked(registry, f, invocations)
    /\ invocations' = Append(invocations, f)
    /\ calls' = Append(calls, [op |-> "register_route_function", arg |-> f])
    /\ UNCHANGED <<nonRegistryVars, yielded, scanVars>>

\* list(registry): RoutesRegistry.__iter__ run to its end
Iterate ==
    /\ Len(yielded) < MaxIterations
    /\ yielded' = Append(yielded, [routes |-> registry, after |-> Len(calls)])
    /\ UNCHANGED <<nonRegistryVars, registry, calls, invocations, scanVars>>

NextRegistry ==
    \/ \E route \in Routes : RegisterRoute(route)
    \/ \E f \in RouteFunctions : RegisterRouteFunction(f)
    \/ Iterate

SpecRegistry == InitRegistry /\ [][NextRegistry]_vars

-----------------------------------------------------------------------------
(* Route discovery: _collect_module_functions (routing/registry.py)        *)

MaxMembers == 2

\* no exception: what a call that returns "raises"
Nothing == "nothing"

\* a member of a module as inspect.getmembers shows it: whether its name
\* starts with "_", what it is, whether its __module__ is the scanned
\* module, its return annotation, and what calling it raises
Member(private, kind, here, returns, raises) ==
    [private |-> private, kind |-> kind, defined_here |-> here,
     return_annotation |-> returns, raises |-> raises]

MemberKinds == {"function", "class", "object"}
ReturnAnnotations == {"Route", "other"}

\* the members of the modules scanned on their own: none raises
Members ==
    { Member(private, kind, here, returns, Nothing) :
        private \in BOOLEAN, kind \in MemberKinds, here \in BOOLEAN,
        returns \in ReturnAnnotations }

\* inspect.getmembers(module), sorted by name
Modules == SeqsUpTo(Members, MaxMembers)

\* mutant of the test of lines 100-106: functions imported from elsewhere pass
QualifiesFromAnywhere(member) ==
    /\ member.kind = "function"
    /\ member.return_annotation = "Route"

\* lines 100-106: isfunction, not isclass, __module__ == module_name,
\* return_annotation is Route
Qualifies(member) ==
    /\ member.kind = "function"
    /\ member.kind # "class"
    /\ member.defined_here
    /\ member.return_annotation = "Route"

RECURSIVE Collect(_, _, _, _, _)
\* the loop of _collect_module_functions from member i on: the registry and
\* the invocations after it, and the exception that ended it, if any
Collect(id, members, i, reg, invs) ==
    IF i > Len(members) THEN [registry |-> reg, invocations |-> invs, raised |-> Nothing]
    ELSE IF members[i].private THEN Collect(id, members, i + 1, reg, invs)
    ELSE IF ~Qualifies(members[i]) THEN Collect(id, members, i + 1, reg, invs)
    ELSE LET f == [module |-> id, member |-> i]
         IN  IF members[i].raises # Nothing
             THEN [registry |-> reg, invocations |-> Append(invs, f),
                   raised |-> members[i].raises]
             ELSE Collect(id, members, i + 1, AppendInvoked(reg, f, invs), Append(invs, f))

\* a registry before discovery: empty, or one route registered by hand
InitialRegistries == {<<>>} \cup {<<route>> : route \in Routes}

InitCollect ==
    /\ NonRegistryIdle
    /\ registry \in InitialRegistries
    /\ calls = [i \in 1..Len(registry) |-> [op |-> "register_route", arg |-> registry[i]]]
    /\ invocations = <<>>
    /\ yielded = <<>>
    /\ \E members \in Modules : module = [name |-> 0, members |-> members]
    /\ scanned = Pending
    /\ walk = Idle /\ warnings = <<>> /\ seen = <<>>

\* register_module(module) of a single-file module:
\* _collect_module_functions(module)
CollectModuleFunctions ==
    /\ scanned = Pending
    /\ LET outcome == Collect(module.name, module.members, 1, registry, invocations)
       IN  /\ registry' = outcome.registry
           /\ invocations' = outcome.invocations
           /\ scanned' = IF outcome.raised = Nothing THEN [kind |-> "returned"]
                          ELSE Raised(outcome.raised)
    /\ UNCHANGED <<nonRegistryVars, calls, yielded, module, walk, warnings, seen>>

NextCollect == CollectModuleFunctions

SpecCollect == InitCollect /\ [][NextCollect]_vars

-----------------------------------------------------------------------------
(* Route discovery: _walk_filesystem (routing/registry.py)                 *)

MaxEntries == 3
MaxNesting == 2

\* exception classes, each with its base
ExceptionBase ==
    [ Exception           |-> "Exception",
      ImportError         |-> "Exception",
      ModuleNotFoundError |-> "ImportError",
      AttributeError      |-> "Exception",
      TypeError           |-> "Exception",
      SyntaxError         |-> "Exception",
      ValueError          |-> "Exception" ]

RECURSIVE ExceptionMro(_)
ExceptionMro(cls) ==
    IF cls = "Exception" THEN {cls} ELSE {cls} \cup ExceptionMro(ExceptionBase[cls])

\* except (ImportError, AttributeError, TypeError)
Caught(cls) == ExceptionMro(cls) \cap {"ImportError", "AttributeError", "TypeError"} # {}

\* what importlib.import_module may raise for a file of the package
ImportExceptions == {"ModuleNotFoundError", "AttributeError", "SyntaxError"}

\* the entries that are passed over: hidden ones, ignore-listed directories,
\* files starting with "_" and files that are not python
SkippedEntries == {"hidden", "ignored_directory", "private_file", "other_file"}

\* a public route function of the module, and what calling it raises
RouteFunction(raises) == Member(FALSE, "function", TRUE, "Route", raises)

\* the modules met in a package: members as inspect.getmembers shows them
PackageModules ==
    { <<>>,
      <<RouteFunction(Nothing)>>,
      <<RouteFunction(Nothing), RouteFunction(Nothing)>>,
      <<RouteFunction(Nothing), Member(TRUE, "function", TRUE, "Route", Nothing)>>,
      <<RouteFunction(Nothing), RouteFunction("TypeError"), RouteFunction(Nothing)>>,
      <<RouteFunction(Nothing), RouteFunction("ValueError"), RouteFunction(Nothing)>> }

Walking(depth) == [status |-> "walking", depth |-> depth, raised |-> Nothing]

\* the exception leaves every frame of _walk_filesystem
Aborted(depth, cls) == [status |-> "raised", depth |-> depth, raised |-> cls]

InitWalk ==
    /\ NonRegistryIdle
    /\ registry = <<>>
    /\ calls = <<>>
    /\ invocations = <<>>
    /\ yielded = <<>>
    /\ module = Idle /\ scanned = Idle
    /\ walk = Walking(1)
    /\ warnings = <<>>
    /\ seen = <<>>

\* lines 61-63, 67-69 and the entries neither branch of 66 / 76 takes
SkipEntry(why) ==
    /\ walk.status = "walking"
    /\ Len(seen) < MaxEntries
    /\ seen' = Append(seen, [kind |-> "skipped", why |-> why])
    /\ UNCHANGED <<nonRegistryVars, registry, calls, invocations, yielded,
                   module, scanned, walk, warnings>>

\* lines 66-73: recurse into a directory
EnterDirectory ==
    /\ walk.status = "walking"
    /\ Len(seen) < MaxEntries
    /\ walk.depth < MaxNesting
    /\ walk' = Walking(walk.depth + 1)
    /\ seen' = Append(seen, [kind |-> "directory"])
    /\ UNCHANGED <<nonRegistryVars, registry, calls, invocations, yielded,
                   module, scanned, warnings>>

\* the loop over os.listdir(dir_path) ends: this frame returns
EndOfListing ==
    /\ walk.status = "walking"
    /\ walk' = IF walk.depth = 1
               THEN [status |-> "returned", depth |-> 0, raised |-> Nothing]
               ELSE Walking(walk.depth - 1)
    /\ UNCHANGED <<nonRegistryVars, registry, calls, invocations, yielded,
                   module, scanned, warnings, seen>>

\* lines 76-85 with importlib.import_module raising
ImportFails(cls) ==
    /\ walk.status = "walking"
    /\ Len(seen) < MaxEntries
    /\ seen' = Append(seen, [kind |-> "module", import_raises |-> cls, members |-> <<>>])
    /\ IF Caught(cls)
       THEN /\ warnings' = Append(warnings, Len(seen) + 1)
            /\ UNCHANGED walk
       ELSE /\ walk' = Aborted(walk.depth, cls)
            /\ UNCHANGED warnings
    /\ UNCHANGED <<nonRegistryVars, registry, calls, invocations, yielded, module, scanned>>

\* lines 76-85 with the module imported and scanned
ImportAndCollect(members) ==
    /\ walk.status = "walking"
    /\ Len(seen) < MaxEntries
    /\ seen' = Append(seen, [kind |-> "module", import_raises |-> Nothing, members |-> members])
    /\ LET outcome == Collect(Len(seen) + 1, members, 1, registry, invocations)
       IN  /\ registry' = outcome.registry
           /\ invocations' = outcome.invocations
           /\ IF outcome.raised = Nothing
              THEN UNCHANGED <<walk, warnings>>
              ELSE IF Caught(outcome.raised)
                   THEN /\ warnings' = Append(warnings, Len(seen) + 1)
                        /\ UNCHANGED walk
                   ELSE /\ walk' = Aborted(walk.depth, outcome.raised)
                        /\ UNCHANGED warnings
    /\ UNCHANGED <<nonRegistryVars, calls, yielded, module, scanned>>

NextWalk ==
    \/ \E why \in SkippedEntries : SkipEntry(why)
    \/ EnterDirectory
    \/ EndOfListing
    \/ \E cls \in ImportExceptions : ImportFails(cls)
    \/ \E members \in PackageModules : ImportAndCollect(members)

SpecWalk == InitWalk /\ [][NextWalk]_vars

-----------------------------------------------------------------------------
(* PanchoStreamHandler (handlers/pancho.py)                                *)

\* _get_http_code's last resort
DefaultHttpErrorCode == 500

\* classes of the events a stream may hold: events proper and errors
EventClasses == {"PayloadMessage", "DerivedMessage", "PayloadError", "DerivedError"}

\* the constructor's errors_http_schema, a dict from HTTP code to error
\* type: its items in insertion order, the codes distinct
ErrorsHttpSchemas ==
    { items \in SeqsUpTo([code : {400, 404}, type : ErrorMappingClasses], 2) :
        \A i, j \in 1..Len(items) : i # j => items[i].code # items[j].code }

\* {v: k for k, v in errors_http_schema.items()}: a later item replaces an
\* earlier one of the same type
Inverted(items) ==
    [ t \in {items[i].type : i \in 1..Len(items)} |->
        items[CHOOSE i \in 1..Len(items) :
                 /\ items[i].type = t
                 /\ \A j \in (i + 1)..Len(items) : items[j].type # t].code ]

\* mutant of _get_http_code: only the error's own class is looked up
GetHttpCodeOfClass(schema_by_type, cls) ==
    IF cls \in DOMAIN schema_by_type THEN schema_by_type[cls] ELSE DefaultHttpErrorCode

\* _get_http_code: the first class of the MRO the inverted schema knows
GetHttpCode(schema_by_type, cls) ==
    LET mro == Mro(cls)
        known == {i \in 1..Len(mro) : mro[i] \in DOMAIN schema_by_type}
    IN  IF known = {} THEN DefaultHttpErrorCode
        ELSE schema_by_type[mro[CHOOSE i \in known : \A j \in known : i <= j]]

\* raise ResponseError(http_code=..., ...) for an error event
ResponseError(code, event) ==
    [kind |-> "raised", error |-> "ResponseError", http_code |-> code, event |-> event]

InitHandler ==
    /\ NonHandlerIdle
    /\ events \in { [i \in 1..Len(cs) |-> [id |-> i, cls |-> cs[i]]] :
                       cs \in SeqsUpTo(EventClasses, MaxStream) }
    /\ desired_event \in {"Message", "PayloadMessage", "DerivedMessage"}
    /\ errors_http_schema \in ErrorsHttpSchemas
    /\ examined = 0
    /\ found = None
    /\ handler_outcome = Pending

\* the next event of the loop, while the call is running
Scanning == handler_outcome = Pending /\ examined < Len(events)

\* lines 21-33: the event is an Error
ScanError ==
    /\ Scanning
    /\ IsInstance(events[examined + 1].cls, "Error")
    /\ examined' = examined + 1
    /\ handler_outcome' =
           ResponseError(GetHttpCode(Inverted(errors_http_schema), events[examined + 1].cls),
                         events[examined + 1])
    /\ UNCHANGED <<nonHandlerVars, events, desired_event, errors_http_schema, found>>

\* lines 34-35: the event is of the desired type
ScanDesired ==
    /\ Scanning
    /\ ~IsInstance(events[examined + 1].cls, "Error")
    /\ IsInstance(events[examined + 1].cls, desired_event)
    /\ examined' = examined + 1
    /\ found' = events[examined + 1]
    /\ UNCHANGED <<nonHandlerVars, events, desired_event, errors_http_schema, handler_outcome>>

\* the event is neither
ScanOther ==
    /\ Scanning
    /\ ~IsInstance(events[examined + 1].cls, "Error")
    /\ ~IsInstance(events[examined + 1].cls, desired_event)
    /\ examined' = examined + 1
    /\ UNCHANGED <<nonHandlerVars, events, desired_event, errors_http_schema, found,
                   handler_outcome>>

\* line 36: the stream is over
ReturnResult ==
    /\ handler_outcome = Pending
    /\ examined = Len(events)
    /\ handler_outcome' = [kind |-> "returned", v |-> found]
    /\ UNCHANGED <<nonHandlerVars, events, desired_event, errors_http_schema, examined, found>>

NextHandler == ScanError \/ ScanDesired \/ ScanOther \/ ReturnResult

SpecHandler == InitHandler /\ [][NextHandler]_vars

-----------------------------------------------------------------------------
(* JwtAuthMiddleware (middleware/security.py)                              *)

MaxPath == 2

\* request.url.path and the public paths: strings, as sequences of characters
Paths == SeqsUpTo({"p", "x"}, MaxPath)

\* the constructor's public_paths: None or a list of paths
PublicPaths == {None} \cup {[list |-> l] : l \in SeqsUpTo(Paths, 2)}

\* request.app.jwt_secret
AppSecret == "app-secret"

\* what an Authorization header may carry after its scheme: nothing, text
\* that is no JWT, or a JWT signed with some secret over some payload
Tokens ==
    {[kind |-> "empty", secret |-> "", payload |-> {}],
     [kind |-> "garbage", secret |-> "", payload |-> {}]}
    \cup [kind : {"jwt"}, secret : {AppSecret, "other-secret"}, payload : {{}, {"sub"}}]

\* request.headers: no Authorization header, or one with a scheme word
\* ("" for none) and the rest
Headers == {None} \cup [scheme : {"Bearer", "", "Basic"}, credentials : Tokens]

\* str.startswith
StartsWith(s, prefix) ==
    Len(prefix) <= Len(s) /\ \A i \in 1..Len(prefix) : s[i] = prefix[i]

\* AuthMiddleware._is_public_path (None, returned when no path matches, is falsy)
IsPublicPath(paths, req) ==
    paths # None /\ \E i \in 1..Len(paths.list) : StartsWith(req.path, paths.list[i])

\* request.headers.get("Authorization", "").replace("Bearer", "").strip():
\* the word Bearer is removed, any other scheme word stays in the text
AccessToken(req) ==
    IF req.authorization = None THEN [kind |-> "empty", secret |-> "", payload |-> {}]
    ELSE IF req.authorization.scheme \in {"Bearer", ""} THEN req.authorization.credentials
    ELSE [kind |-> "garbage", secret |-> "", payload |-> {}]

\* mutant of jwt.decode: the signature is not verified against
\* the secret
DecodeUnverified(token, secret) ==
    IF token.kind = "jwt"
    THEN [kind |-> "payload", claims |-> token.payload]
    ELSE [kind |-> "raised", claims |-> {}]

\* jwt.decode(access_token, secret, algorithms=[...])
Decode(token, secret) ==
    IF token.kind = "jwt" /\ token.secret = secret
    THEN [kind |-> "payload", claims |-> token.payload]
    ELSE [kind |-> "raised", claims |-> {}]

\* default_access_denied_adapter(request)
AccessDenied == [kind |-> "response", status_code |-> 401, by |-> "access_denied_response_adapter"]

\* what call_next(request) returns
NextResponse(req) == [kind |-> "response", status_code |-> 200, by |-> "call_next"]

\* JwtAuthMiddleware.__call__: whether call_next is awaited, and the response
JwtAuthMiddlewareCall(paths, registrator, req) ==
    IF IsPublicPath(paths, req) THEN [forward |-> TRUE, response |-> NextResponse(req)]
    ELSE LET access_token == AccessToken(req)
             payload == Decode(access_token, AppSecret)
         IN  IF access_token.kind = "empty" THEN [forward |-> FALSE, response |-> AccessDenied]
             ELSE IF payload.kind = "raised" THEN [forward |-> FALSE, response |-> AccessDenied]
             ELSE IF payload.claims = {} THEN [forward |-> FALSE, response |-> AccessDenied]
             ELSE IF registrator THEN [forward |-> TRUE, response |-> NextResponse(req)]
             ELSE [forward |-> FALSE, response |-> AccessDenied]

InitSecurity ==
    /\ NonSecurityIdle
    /\ request \in [path : Paths, authorization : Headers]
    /\ public_paths \in PublicPaths
    /\ registers \in BOOLEAN
    /\ next_calls = <<>>
    /\ auth_response = Pending

\* await middleware(request, call_next)
CallJwtAuthMiddleware ==
    /\ auth_response = Pending
    /\ LET outcome == JwtAuthMiddlewareCall(public_paths, registers, request)
       IN  /\ auth_response' = outcome.response
           /\ next_calls' = IF outcome.forward THEN <<request>> ELSE <<>>
    /\ UNCHANGED <<nonSecurityVars, request, public_paths, registers>>

NextSecurity == CallJwtAuthMiddleware

SpecSecurity == InitSecurity /\ [][NextSecurity]_vars

-----------------------------------------------------------------------------
(* make_request_class / make_response_class (factory.py)                   *)

MaxClasses == 3

\* the data classes the factories may be given, by __name__
DataClasses == {"SampleData", "OtherData", "ItemData"}

\* mutant of type(name, bases, namespace): a class already created under
\* the same name and bases is returned again
CachedType(name, base, data_class) ==
    LET same == {i \in 1..Len(created) :
                    created[i].returned.name = name /\ created[i].returned.bases = <<base>>}
    IN  IF same # {} THEN created[CHOOSE i \in same : TRUE].returned
        ELSE [id |-> Len(created) + 1, name |-> name, bases |-> <<base>>,
              annotations |-> [data |-> data_class], data |-> None]

\* type(class_name, (base,), {"__annotations__": {"data": data_class}, "data": None}):
\* a new type object, identified by its place among the objects created
NewType(name, base, data_class) ==
    [id |-> Len(created) + 1, name |-> name, bases |-> <<base>>,
     annotations |-> [data |-> data_class], data |-> None]

InitFactory ==
    /\ NonFactoryIdle
    /\ created = <<>>

\* make_response_class(data_class)
MakeResponseClass ==
    /\ Len(created) < MaxClasses
    /\ \E data_class \in DataClasses :
           created' = Append(created,
                             [call |-> "make_response_class", data_class |-> data_class,
                              returned |-> NewType(data_class \o "Response", "ResponseModel",
                                                   data_class)])
    /\ UNCHANGED nonFactoryVars

\* make_request_class(data_class)
MakeRequestClass ==
    /\ Len(created) < MaxClasses
    /\ \E data_class \in DataClasses :
           created' = Append(created,
                             [call |-> "make_request_class", data_class |-> data_class,
                              returned |-> NewType(data_class \o "Request", "RequestModel",
                                                   data_class)])
    /\ UNCHANGED nonFactoryVars

NextFactory == MakeResponseClass \/ MakeRequestClass

SpecFactory == InitFactory /\ [][NextFactory]_vars

-----------------------------------------------------------------------------
(* Property vocabulary, stated independently of the operators above        *)

RECURSIVE Flatten(_)
\* the messages of a sequence of batches, concatenated in order
Flatten(bs) == IF bs = <<>> THEN <<>> ELSE bs[1].messages \o Flatten(Tail(bs))

IsPrefix(s, t) == Len(s) <= Len(t) /\ SubSeq(t, 1, Len(s)) = s

\* the strict ancestors of a class, by walking the bases
RECURSIVE Ancestors(_)
Ancestors(cls) == IF cls = "object" THEN {} ELSE {Base[cls]} \cup Ancestors(Base[cls])

\* desired is the class itself or one of its superclasses
EqualOrSuper(desired, cls) == desired = cls \/ desired \in Ancestors(cls)

\* some declared interceptor accepts class cls
SomeInterceptorAccepts(cls) ==
    \E i \in 1..Len(interceptors) : EqualOrSuper(interceptors[i], cls)

\* the lengths of the maximal runs of identical class in a sequence of messages
RECURSIVE RunLengths(_)
RunLengths(ms) ==
    IF ms = <<>> THEN <<>>
    ELSE LET rest == RunLengths(Tail(ms))
         IN IF Len(ms) > 1 /\ ms[2].cls = ms[1].cls
            THEN <<rest[1] + 1>> \o Tail(rest)
            ELSE <<1>> \o rest

BatchLengths(bs) == [k \in 1..Len(bs) |-> Len(bs[k].messages)]

-----------------------------------------------------------------------------
(* Claims *)

\* C1: the batches emitted by _group_stream (either implementation),
\* concatenated in emission order, are always a prefix of the stream and,
\* once the generator has ended, exactly the stream: nothing lost, duplicated
\* or reordered; and no emitted batch is empty.
C1_BatchesConcatenateToStream ==
    /\ \A k \in 1..Len(emitted) : emitted[k].messages # <<>>
    /\ IsPrefix(Flatten(emitted), stream)
    /\ genpc = "end" => Flatten(emitted) = stream

C1_Witness ==
    /\ genpc = "end"
    /\ variant = "endpoint"
    /\ Len(stream) >= 3
    /\ Len(emitted) >= 2
    /\ \E k \in 1..Len(emitted) : Len(emitted[k].messages) >= 2

\* C2: every batch emitted by Endpoint._group_stream is homogeneous by exact
\* concrete type: each of its messages has exactly the batch's type.
C2_ExactTypeBatches ==
    variant = "endpoint" =>
        \A k \in 1..Len(emitted) :
            \A i \in 1..Len(emitted[k].messages) :
                emitted[k].messages[i].cls = emitted[k].messages[1].cls

\* C3: for a stream of N runs of lengths L1..LN (adjacent runs of different
\* types), Endpoint._group_stream run to its end has yielded exactly N batches
\* with those lengths in that order; none for the empty stream.
C3_BatchesAreRuns ==
    (variant = "endpoint" /\ genpc = "end") =>
        BatchLengths(emitted) = RunLengths(stream)

\* C4: the interceptor invoked for a batch is the first one, in declaration
\* order, whose desired type is the batch's element type or a superclass of
\* it; it receives all messages of the batch in order; its result is what
\* the handler returns; and every batch yielded before was accepted by none.
C4_FirstMatchingInterceptor ==
    \A c \in 1..Len(invoked) :
        LET call == invoked[c]
            cur  == emitted[Len(emitted)]
            cls  == cur.messages[1].cls
        IN  /\ call.interceptor \in 1..Len(interceptors)
            /\ EqualOrSuper(interceptors[call.interceptor], cls)
            /\ \A j \in 1..(call.interceptor - 1) : ~EqualOrSuper(interceptors[j], cls)
            /\ call.messages = cur.messages
            /\ IsPrefix(Flatten(emitted), stream)
            /\ response = [kind |-> "response",
                           interceptor |-> call.interceptor,
                           messages |-> cur.messages]
            /\ \A k \in 1..(Len(emitted) - 1) :
                   ~SomeInterceptorAccepts(emitted[k].messages[1].cls)

C4_Witness ==
    /\ pc = "done"
    /\ Len(invoked) = 1
    /\ invoked[1].interceptor = 2
    /\ EqualOrSuper(interceptors[2], "DerivedMessage")
    /\ interceptors[2] # "DerivedMessage"
    /\ Len(invoked[1].messages) >= 2
    /\ Len(emitted) >= 2

\* C5: stream order takes precedence over declaration order. When the first
\* batch is accepted by a later-declared interceptor B and not by an
\* earlier-declared A, the call made is B on the first batch, A is never
\* called (even if a later batch is of A's type), and no batch after the
\* first is yielded: at most the one message that closed the first batch has
\* been pulled beyond it.
C5_StreamOrderOverDeclarationOrder ==
    (Len(emitted) >= 1 /\ SomeInterceptorAccepts(emitted[1].messages[1].cls)) =>
        /\ Len(emitted) = 1
        /\ Len(invoked) <= 1
        /\ pc = "done" => Len(invoked) = 1
        /\ \A c \in 1..Len(invoked) :
               /\ EqualOrSuper(interceptors[invoked[c].interceptor], emitted[1].messages[1].cls)
               /\ invoked[c].messages = emitted[1].messages
        /\ pos <= Len(emitted[1].messages) + 1

C5_Witness ==
    /\ pc = "done"
    /\ interceptors = <<"PayloadMessage", "Error">>
    /\ Len(stream) >= 2
    /\ stream[1].cls = "PayloadError"
    /\ stream[Len(stream)].cls = "PayloadMessage"
    /\ Len(invoked) = 1
    /\ invoked[1].interceptor = 2

\* C6: when no interceptor accepts the element type of any batch of the
\* stream, the handler returns None and calls no interceptor (empty stream
\* and stream of unmatched types alike).
C6_NoMatchReturnsNone ==
    (/\ pc = "done"
     /\ \A k \in 1..Len(emitted) : ~SomeInterceptorAccepts(emitted[k].messages[1].cls))
    => /\ response = NoResponse
       /\ invoked = <<>>
       /\ Flatten(emitted) = stream

C6_Witness ==
    /\ pc = "done"
    /\ response = NoResponse
    /\ Len(interceptors) >= 1
    /\ Len(emitted) >= 2

C6_WitnessEmptyStream ==
    /\ pc = "done"
    /\ response = NoResponse
    /\ stream = <<>>
    /\ Len(interceptors) >= 1

\* the status code an Interceptor was declared with: 204 when nothing was
DeclaredStatusCode(declare) == IF declare.tag = "none" THEN 204 ELSE declare.code

\* C7: an Interceptor built without a (response type, serializer) pair
\* returns an empty-body Response carrying only the declared status code
\* (204 when nothing was declared); otherwise it returns the response type
\* built with the declared status code and, as content, the serializer's
\* output on all the passed messages in order.
C7_InterceptorCall ==
    (returned # Pending /\ declared.class = "Interceptor") =>
        IF declared.response.tag = "none"
        THEN returned = [type |-> "Response",
                         status_code |-> DeclaredStatusCode(declared.declare),
                         content |-> "None"]
        ELSE returned = [type |-> declared.response.response_type,
                         status_code |-> DeclaredStatusCode(declared.declare),
                         content |-> Serialize(declared.response.serializer, args)]

C7_Witness ==
    /\ returned # Pending
    /\ declared.class = "Interceptor"
    /\ declared.declare.tag = "tuple"
    /\ declared.response.tag = "tuple"
    /\ declared.response.serializer = "values"
    /\ Len(args) >= 2
    /\ returned.content = [values |-> [i \in 1..Len(args) |-> i]]

C7_WitnessNothingDeclared ==
    /\ returned # Pending
    /\ declared.class = "Interceptor"
    /\ declared.declare.tag = "none"
    /\ declared.response.tag = "none"
    /\ returned.status_code = 204

\* the entry of the first class of cls's MRO that the mapping names, 500
\* when it names none
MroStatusCode(mapping, cls) ==
    LET named(c) == \E i \in 1..Len(mapping) : mapping[i].error_type = c
        entry(c) == mapping[CHOOSE i \in 1..Len(mapping) : mapping[i].error_type = c].status_code
        mro      == Mro(cls)
        hits     == {p \in 1..Len(mro) : named(mro[p])}
    IN  IF hits = {} THEN 500
        ELSE entry(mro[CHOOSE p \in hits : \A q \in hits : p <= q])

\* C8: ErrorInterceptor answers with the status code of the first class in
\* the first error's MRO that has a mapping entry (the more specific class
\* wins whatever the mapping's insertion order), 500 when none has.
C8_StatusCodeByMro ==
    (returned # Pending /\ declared.class = "ErrorInterceptor") =>
        returned.status_code = MroStatusCode(declared.mapping, args[1].cls)

\* what the i-th parameter of the call serialized to
Serialized(i) == ParameterCall(kwargs[i])

ListParams == {i \in 1..Len(kwargs) : Serialized(i).kind = "list"}
ScalarParams == {i \in 1..Len(kwargs) : Serialized(i).kind = "dict"}

\* C9: the adapter emits exactly len(L) messages when some parameter
\* serialized to a list L (the empty list included), and exactly one message
\* when no parameter serialized to a list.
C9_OneMessagePerListElement ==
    tasks.kind = "returned" =>
        IF ListParams = {}
        THEN Len(tasks.v) = 1
        ELSE \E i \in ListParams : Len(tasks.v) = Len(Serialized(i).v)

\* the scalar parameters' mappings merged: the union of their keys, each key
\* with the value of the last parameter in call order that has it
ScalarKeys == UNION {DOMAIN Serialized(i).v : i \in ScalarParams}

LastScalarWith(k) ==
    CHOOSE i \in ScalarParams :
        /\ k \in DOMAIN Serialized(i).v
        /\ \A j \in ScalarParams : k \in DOMAIN Serialized(j).v => j <= i

ScalarMerge == [k \in ScalarKeys |-> Serialized(LastScalarWith(k)).v[k]]

\* mapping d with the keys of e laid over it
Overridden(d, e) ==
    [k \in DOMAIN d \cup DOMAIN e |-> IF k \in DOMAIN e THEN e[k] ELSE d[k]]

\* where a value comes from, whatever it was cast to
Origin(value) == [param |-> value.param, item |-> value.item]

\* fields carry the values of mapping d: the same keys, each field from the
\* same place, and exactly d's value when type_cast_map does not name it
CarriesValuesOf(fields, d) ==
    /\ DOMAIN fields = DOMAIN d
    /\ \A k \in DOMAIN d :
           /\ Origin(fields[k]) = Origin(d[k])
           /\ k \notin DOMAIN type_cast_map => fields[k] = d[k]

\* the fan-out list the messages are built from: the last one in call order,
\* empty when no parameter serialized to a list
FanOut ==
    IF ListParams = {} THEN <<>>
    ELSE Serialized(CHOOSE i \in ListParams : \A j \in ListParams : j <= i).v

\* C10: every outgoing message carries the merge of all scalar parameters'
\* mappings (union of keys, later parameter wins, wherever the fan-out
\* parameter sits in the call) overridden by the keys of its fan-out element;
\* with no fan-out element the single message carries exactly the scalar
\* merge (fields named in type_cast_map arrive cast).
C10_MessageFields ==
    tasks.kind = "returned" =>
        IF FanOut # <<>>
        THEN /\ Len(tasks.v) = Len(FanOut)
             /\ \A i \in 1..Len(FanOut) :
                    /\ tasks.v[i].cls = TaskType
                    /\ CarriesValuesOf(tasks.v[i].payload, Overridden(ScalarMerge, FanOut[i]))
        ELSE /\ Len(tasks.v) = 1
             /\ tasks.v[1].cls = TaskType
             /\ CarriesValuesOf(tasks.v[1].payload, ScalarMerge)

C10_Witness ==
    /\ tasks.kind = "returned"
    /\ Len(kwargs) = 3
    /\ Serialized(1).kind = "list"
    /\ Serialized(2).kind = "dict"
    /\ Serialized(3).kind = "dict"
    /\ DOMAIN Serialized(2).v \cap DOMAIN Serialized(3).v # {}
    /\ Len(tasks.v) = 2
    /\ \E k \in DOMAIN tasks.v[1].payload : tasks.v[1].payload[k].item = 1
    /\ \E k \in DOMAIN tasks.v[1].payload : tasks.v[1].payload[k].item = 0
    /\ DOMAIN tasks.v[2].payload # DOMAIN tasks.v[1].payload

C10_WitnessScalarsOnly ==
    /\ tasks.kind = "returned"
    /\ ListParams = {}
    /\ Len(kwargs) = 2
    /\ DOMAIN tasks.v[1].payload = {"a", "b"}
    /\ DOMAIN Serialized(1).v # DOMAIN Serialized(2).v

\* C12: calling a Parameter whose value was never bound raises ValueError
\* instead of serializing, and a request DeclarativeAdapter called with such
\* a parameter (wherever it sits in the call) raises ValueError without
\* having constructed any outgoing message.
C12_UnboundParameterRaises ==
    /\ \A i \in 1..Len(kwargs) :
           kwargs[i].value = Unset <=> Serialized(i) = [kind |-> "raised", v |-> "ValueError"]
    /\ (tasks # Pending /\ \E i \in 1..Len(kwargs) : kwargs[i].value = Unset) =>
           /\ tasks = [kind |-> "raised", v |-> "ValueError"]
           /\ built = <<>>

C12_Witness ==
    /\ tasks.kind = "raised"
    /\ Len(kwargs) = 3
    /\ kwargs[1].value # Unset /\ kwargs[1].value.kind = "list" /\ Len(kwargs[1].value.v) = 2
    /\ kwargs[2].value # Unset
    /\ kwargs[3].value = Unset

\* caster(value), applied once
CastOnce(caster, value) ==
    [param |-> value.param, item |-> value.item, t |-> caster,
     wraps |-> IF caster = "int" THEN value.wraps ELSE value.wraps + 1]

\* a mapping as it should reach the message: each field named in
\* type_cast_map is the caster applied to the value, the others are the value
AsSent(d) ==
    [k \in DOMAIN d |->
        IF k \in DOMAIN type_cast_map THEN CastOnce(type_cast_map[k], d[k]) ELSE d[k]]

\* C14: every field of an outgoing message named in type_cast_map equals the
\* caster applied to the value of the mapping the message is built from
\* (scalar mapping or fan-out element); fields named in the map but absent
\* from the mapping are not added; fields not named pass unchanged.
C14_FieldsCastOnce ==
    tasks.kind = "returned" =>
        IF FanOut # <<>>
        THEN \A i \in 1..Len(tasks.v) :
                 i <= Len(FanOut) =>
                     tasks.v[i].payload = AsSent(Overridden(ScalarMerge, FanOut[i]))
        ELSE \A i \in 1..Len(tasks.v) : tasks.v[i].payload = AsSent(ScalarMerge)

\* the schema parameters request r names, in schema order, each holding the
\* value r itself was given for it
OwnParams(r) ==
    LET named == SelectSeq(schema, LAMBDA p : p.name \in DOMAIN func[r].kwargs)
    IN  [j \in 1..Len(named) |-> [named[j] EXCEPT !.value = func[r].kwargs[named[j].name]]]

\* C11: with two requests in flight on the handler of one Endpoint, sharing
\* its Parameter objects, every parameter a request's adapter call reads
\* holds the value that same request bound, every field of every outgoing
\* message of a request is a value of that request, and the request's tasks
\* are what the adapter builds from its own values alone.
C11_RequestsIsolated ==
    /\ \A c \in 1..Len(adapter_calls) :
           LET call == adapter_calls[c]
           IN  \A j \in 1..Len(call.params) :
                   /\ call.params[j].name \in DOMAIN func[call.request].kwargs
                   /\ call.params[j].value = func[call.request].kwargs[call.params[j].name]
    /\ \A r \in Requests :
           func[r].pc \in {"adapted", "stream", "done"} =>
               /\ \A i \in 1..Len(func[r].tasks) :
                      \A k \in DOMAIN func[r].tasks[i].payload :
                          func[r].tasks[i].payload[k].request = r
               /\ [kind |-> "returned", v |-> func[r].tasks]
                      = DeclarativeAdapterCall(type_cast_map, OwnParams(r))
    /\ \A c \in 1..Len(pipeline_runs) :
           pipeline_runs[c].tasks = func[pipeline_runs[c].request].tasks

C11_Witness ==
    /\ Len(schema) = 2
    /\ \A r \in Requests : DOMAIN func[r].kwargs = {"a", "m"}
    /\ func[1].pc = "stream"
    /\ func[2].pc = "stream"
    /\ Len(set_values) = 4
    /\ Len(func[1].tasks) = 2
    /\ Len(func[2].tasks) = 1
    /\ \A j \in 1..Len(schema) : schema[j].value = func[2].kwargs[schema[j].name]

\* C13: when the endpoint's pipeline code is not in the pipeline registry,
\* a request ends in RuntimeError and nothing else happens: no set_value, no
\* parameter holding a value, no adapter call, no pipeline call.
C13_UnregisteredPipelineRaises ==
    PipelineCode \notin pipeline_registry =>
        /\ \A r \in Requests :
               /\ func[r].pc \in {"called", "raised"}
               /\ func[r].pc = "raised" => func[r].raised = "RuntimeError"
        /\ set_values = <<>>
        /\ \A j \in 1..Len(schema) : schema[j].value = Unset
        /\ adapter_calls = <<>>
        /\ pipeline_runs = <<>>

C13_Witness ==
    /\ pipeline_registry = {"other_pipeline"}
    /\ Len(schema) = 2
    /\ \A r \in Requests : func[r].pc = "raised" /\ DOMAIN func[r].kwargs = {"a", "m"}

RECURSIVE Lookup(_, _)
\* what a details tree holds at a path, None when the path leaves the tree
Lookup(tree, path) ==
    IF path = <<>> THEN tree
    ELSE IF "dict" \in DOMAIN tree /\ path[1] \in DOMAIN tree.dict
         THEN Lookup(tree.dict[path[1]], Tail(path))
         ELSE None

\* C15: for any list of validation errors the handler answers 422 with the
\* envelope {code: 422, message: "Validation Error", details}, and the
\* details tree holds every error's message at the path of its location.
C15_DetailsTreeHoldsEveryError ==
    (exc.cls = "RequestValidationError" /\ handled # Pending) =>
        /\ handled.kind = "response"
        /\ handled.status_code = 422
        /\ handled.content.code = 422
        /\ handled.content.message = "Validation Error"
        /\ \A i \in 1..Len(exc.errors) :
               Lookup(handled.content.details, exc.errors[i].loc) = [str |-> exc.errors[i].msg]

\* C16: default_exception_handler answers any exception with status 500 and
\* exactly {code: 500, message: str(exc), details: {type: <class name>}}.
C16_DefaultEnvelope ==
    (exc # Idle /\ exc.cls # "RequestValidationError" /\ handled # Pending) =>
        handled = [kind |-> "response", status_code |-> 500,
                   content |-> [code |-> 500,
                                message |-> [str_of |-> exc.cls, args |-> exc.args],
                                details |-> [dict |-> [k \in {"type"} |-> [str |-> exc.cls]]]]]

C16_Witness ==
    /\ exc = [cls |-> "KeyError", args |-> <<"boom">>]
    /\ handled # Pending
    /\ handled.status_code = 500

\* s(m): the serializer's output, or the message itself when there is none
AsData(m) ==
    IF message_serializer = None THEN m
    ELSE IF message_serializer.f = "dump" THEN [dumped |-> m.id, cls |-> m.cls]
    ELSE [name |-> m.cls]

\* C17: ResponseMapping returns {"data": s(m)}, no list around it, for
\* exactly one message and {"data": [s(m1), ..., s(mk)]} in argument order
\* for two or more; the serializer is called once per message, in order, and
\* not at all when none was given.
C17_ResponseMapping ==
    mapped \notin {Idle, Pending} =>
        /\ Len(mapping_args) = 1 =>
               mapped = [data |-> [kind |-> "item", v |-> AsData(mapping_args[1])]]
        /\ Len(mapping_args) >= 2 =>
               mapped = [data |-> [kind |-> "list",
                                   v |-> [i \in 1..Len(mapping_args) |-> AsData(mapping_args[i])]]]
        /\ serializer_calls = IF message_serializer = None THEN <<>> ELSE mapping_args

C17_Witness ==
    /\ mapped \notin {Idle, Pending}
    /\ message_serializer = [f |-> "dump"]
    /\ Len(mapping_args) = 3
    /\ mapping_args[1].cls # mapping_args[2].cls
    /\ Len(serializer_calls) = 3

C17_WitnessOneMessage ==
    /\ mapped \notin {Idle, Pending}
    /\ Len(mapping_args) = 1
    /\ mapped.data.kind = "item"

\* the route call i contributes: the route it was given, or the result of
\* that invocation of its factory
Contributed(i) ==
    IF calls[i].op = "register_route" THEN calls[i].arg
    ELSE [made_by |-> calls[i].arg,
          invocation |-> Cardinality({j \in 1..i : calls[j] = calls[i]})]

FunctionCalls == SelectSeq(calls, LAMBDA c : c.op = "register_route_function")

\* C18: after any sequence of register_route / register_route_function
\* calls the registry holds exactly one route per call, in call order, each
\* factory having been invoked once per call; every iteration yields the
\* routes of the calls made before it, so that iterating changes nothing and
\* repeated iterations yield the same sequence.
C18_OneRoutePerCall ==
    /\ registry = [i \in 1..Len(calls) |-> Contributed(i)]
    /\ invocations = [i \in 1..Len(FunctionCalls) |-> FunctionCalls[i].arg]
    /\ \A k \in 1..Len(yielded) :
           yielded[k].routes = [i \in 1..yielded[k].after |-> Contributed(i)]

C18_Witness ==
    /\ Len(calls) = 3
    /\ calls[1].op = "register_route_function"
    /\ calls[2].op = "register_route"
    /\ calls[3] = calls[1]
    /\ Len(yielded) = 2
    /\ yielded[1].after = 3
    /\ yielded[2] = yielded[1]

\* the routes registered by hand before the scan
GivenRoutes == [i \in 1..Len(calls) |-> calls[i].arg]

\* a function defined directly in the scanned module, not a type, whose
\* declared return type is Route
IsRouteFactory(member) ==
    member.kind = "function" /\ member.defined_here /\ member.return_annotation = "Route"

\* the numbers of a set in ascending order
RECURSIVE Ascending(_)
Ascending(ps) ==
    IF ps = {} THEN <<>>
    ELSE LET least == CHOOSE p \in ps : \A q \in ps : p <= q
         IN  <<least>> \o Ascending(ps \ {least})

\* the scan invoked exactly the members at these positions, once each and in
\* order, and appended their results to the registry
RegisteredExactly(positions) ==
    /\ invocations = [k \in 1..Len(positions) |-> [module |-> module.name, member |-> positions[k]]]
    /\ registry = GivenRoutes \o
                       [k \in 1..Len(positions) |->
                           [made_by |-> [module |-> module.name, member |-> positions[k]],
                            invocation |-> 1]]

\* C19 (as stated): a member is registered exactly when it is a function
\* defined directly in the scanned module, not a type, with declared return
\* type Route; each such member is invoked once and its result appended, and
\* no other member is invoked.
C19_RouteFactoriesRegistered ==
    (module # Idle /\ scanned = [kind |-> "returned"]) =>
        RegisteredExactly(Ascending({i \in 1..Len(module.members) :
                                        IsRouteFactory(module.members[i])}))

\* C19 (amended): a member is registered exactly when, in addition, its name
\* does not start with an underscore.
C19_PublicRouteFactoriesRegistered ==
    (module # Idle /\ scanned = [kind |-> "returned"]) =>
        RegisteredExactly(Ascending({i \in 1..Len(module.members) :
                                        /\ IsRouteFactory(module.members[i])
                                        /\ ~module.members[i].private}))

C19_Witness ==
    /\ module # Idle
    /\ scanned = [kind |-> "returned"]
    /\ Len(module.members) = 2
    /\ IsRouteFactory(module.members[1]) /\ module.members[1].private
    /\ IsRouteFactory(module.members[2]) /\ ~module.members[2].private
    /\ Len(registry) = 2
    /\ registry[1] \in Routes

\* entry n of the traversal was a module whose import or scan failed
Failed(n) ==
    /\ seen[n].kind = "module"
    /\ \/ seen[n].import_raises # "nothing"
       \/ \E i \in 1..Len(seen[n].members) :
              IsRouteFactory(seen[n].members[i]) /\ ~seen[n].members[i].private
              /\ seen[n].members[i].raises # "nothing"

\* member i of module n is a public route factory that no failure precedes
\* in its module, and that does not fail itself
RegisteredBeforeFailure(n, i) ==
    /\ seen[n].kind = "module"
    /\ i \in 1..Len(seen[n].members)
    /\ IsRouteFactory(seen[n].members[i]) /\ ~seen[n].members[i].private
    /\ \A j \in 1..i :
           (IsRouteFactory(seen[n].members[j]) /\ ~seen[n].members[j].private)
               => seen[n].members[j].raises = "nothing"

\* C20: a module that fails to import or to scan never aborts the
\* traversal: the walk goes on, each failing module is reported by one
\* warning, in order, and every route registered before a failure is in the
\* registry.
C20_DiscoveryNeverAborts ==
    walk # Idle =>
        /\ walk.status # "raised"
        /\ warnings = Ascending({n \in 1..Len(seen) : Failed(n)})
        /\ \A n \in 1..Len(seen) :
               seen[n].kind = "module" =>
                   \A i \in 1..Len(seen[n].members) :
                       RegisteredBeforeFailure(n, i) =>
                           \E k \in 1..Len(registry) :
                               registry[k] = [made_by |-> [module |-> n, member |-> i],
                                              invocation |-> 1]

-----------------------------------------------------------------------------
(* Claims on the response adapter's grouping and on the handler's pulls    *)

\* C22: in response.py's DeclarativeAdapter, _group_stream emits one
\* single-message batch per stream message, in stream order (two consecutive
\* messages of one type give two batches); so on a stream of several
\* messages that all match an interceptor, the interceptor is called with
\* the first message only.
C22_AdapterSingletonBatches ==
    variant = "adapter" =>
        /\ \A k \in 1..Len(emitted) : emitted[k].messages = <<stream[k]>>
        /\ genpc = "end" => Len(emitted) = Len(stream)
        /\ ( /\ pc = "done"
             /\ Len(stream) > 1
             /\ \E i \in 1..Len(interceptors) :
                    \A n \in 1..Len(stream) : IsSubclass(stream[n].cls, interceptors[i]) )
           => /\ Len(invoked) = 1
              /\ invoked[1].messages = <<stream[1]>>
              /\ response = InterceptorResult(invoked[1].interceptor, <<stream[1]>>)

C22_Witness ==
    /\ variant = "adapter"
    /\ pc = "done"
    /\ Len(stream) = 3
    /\ \A n \in 1..Len(stream) : stream[n].cls = "PayloadMessage"
    /\ interceptors = <<"PayloadMessage">>
    /\ invoked = <<[interceptor |-> 1, messages |-> <<stream[1]>>]>>

\* two consecutive messages of one type, accepted by no interceptor: two batches
C22_WitnessTwoBatches ==
    /\ variant = "adapter"
    /\ genpc = "end"
    /\ Len(stream) = 2
    /\ stream[1].cls = stream[2].cls
    /\ emitted = <<Batch(<<stream[1]>>), Batch(<<stream[2]>>)>>

\* the stream index of the last message of a non-empty sequence of messages
LastPulledFor(messages) == messages[Len(messages)].id

\* C24: when the endpoint's dispatch returns a response for a batch, the
\* handler has pulled from the stream exactly the messages up to the end of
\* that batch plus at most one following message, the one whose different
\* type closed the batch; it never holds more than one open batch; and it
\* pulls no further message once the interceptor has been invoked.
C24_PullsAtMostOneAhead ==
    /\ [](variant = "endpoint" =>
            /\ response.kind = "response" =>
                   /\ pos \in {LastPulledFor(response.messages),
                               LastPulledFor(response.messages) + 1}
                   /\ pos = LastPulledFor(response.messages) + 1 =>
                          /\ message = stream[pos]
                          /\ stream[pos].cls # response.messages[1].cls
            /\ (genpc = "run" /\ batch # None) =>
                   Flatten(emitted) \o batch.messages = SubSeq(stream, 1, pos)
            /\ genpc = "yielded_in_loop" =>
                   Flatten(emitted) \o <<message>> = SubSeq(stream, 1, pos)
            /\ genpc \in {"yielded_at_end", "end"} =>
                   Flatten(emitted) = SubSeq(stream, 1, pos))
    /\ [][(variant = "endpoint" /\ (pc = "scan" \/ invoked' # <<>>)) => pos' = pos]_vars

\* a response for the first batch, closed by a message of another type,
\* with a third message never pulled
C24_Witness ==
    /\ variant = "endpoint"
    /\ response.kind = "response"
    /\ Len(stream) = 3
    /\ Len(response.messages) = 1
    /\ pos = 2
    /\ message = stream[2]

\* a response for the last batch: the whole stream pulled, nothing beyond
C24_WitnessAtEnd ==
    /\ variant = "endpoint"
    /\ response.kind = "response"
    /\ Len(stream) = 3
    /\ Len(emitted) = 2
    /\ pos = 3
    /\ LastPulledFor(response.messages) = 3

\* C25: over every finite stream, handling a request terminates with
\* exactly one outcome: either exactly one interceptor was invoked exactly
\* once and its response is returned, or no interceptor was invoked and None
\* is returned; no request invokes two interceptors or one interceptor twice.
C25_TerminatesWithOneOutcome ==
    /\ <>(pc = "done")
    /\ [](Len(invoked) <= 1)
    /\ [](pc = "done" =>
            \/ /\ Len(invoked) = 1
               /\ response = InterceptorResult(invoked[1].interceptor, invoked[1].messages)
            \/ /\ invoked = <<>>
               /\ response = NoResponse)
    /\ [](pc # "done" => (invoked = <<>> /\ response = Pending))

C25_Witness ==
    /\ pc = "done"
    /\ Len(stream) = 3
    /\ Len(emitted) = 2
    /\ Len(invoked) = 1
    /\ response.kind = "response"

C25_WitnessNone ==
    /\ pc = "done"
    /\ Len(stream) = 3
    /\ interceptors # <<>>
    /\ invoked = <<>>
    /\ response = NoResponse

-----------------------------------------------------------------------------
(* Claims on the request adapter's fan-out                                 *)

\* C26: in a fan-out call of the request DeclarativeAdapter, every outgoing
\* message carries the same value for each scalar key that its element does
\* not override, namely the type_cast_map caster applied exactly once to the
\* bound value, whatever the number of elements; and the mappings returned
\* by the parameters' serializers are not modified by the call.
C26_FanOutCastsOnceAndLeavesMappings ==
    (tasks.kind = "returned" /\ FanOut # <<>>) =>
        /\ \A i \in 1..Len(tasks.v) :
               i <= Len(FanOut) =>
                   \A k \in ScalarKeys \ DOMAIN FanOut[i] :
                       /\ k \in DOMAIN tasks.v[i].payload
                       /\ tasks.v[i].payload[k] = AsSent(ScalarMerge)[k]
        /\ serialized = [i \in 1..Len(kwargs) |-> Serialized(i)]

\* C27: when more than one parameter of a request DeclarativeAdapter call
\* serializes to a list, the outgoing messages are built from the last such
\* list in call order only: their number is that list's length and the
\* elements of the earlier lists contribute to no message.
C27_LastListOnly ==
    (tasks.kind = "returned" /\ Cardinality(ListParams) > 1) =>
        /\ Len(tasks.v) = Len(FanOut)
        /\ \A i \in 1..Len(tasks.v) :
               \A k \in DOMAIN tasks.v[i].payload :
                   LET value == tasks.v[i].payload[k]
                   IN  value.item # 0 =>
                           /\ value.item = i
                           /\ kwargs[CHOOSE n \in ListParams : \A j \in ListParams : j <= n].name
                                  = value.param

-----------------------------------------------------------------------------
(* Claims on the parameters the endpoint binds                             *)

\* the names of the schema parameters
SchemaNames == {schema[i].name : i \in 1..Len(schema)}

\* the set_value calls request r made, in order
SetValuesOf(r) == SelectSeq(set_values, LAMBDA s : s.request = r)

\* C28: Endpoint binds and passes to the request adapter exactly the schema
\* parameters whose name is among the request's keyword arguments, each
\* bound to that argument's value; schema parameters absent from the keyword
\* arguments are neither bound nor passed (a value bound by an earlier
\* request is never passed on their behalf), and keyword arguments that
\* match no schema parameter are ignored.
C28_BindsAndPassesNamedParameters ==
    /\ \A n \in 1..Len(set_values) :
           LET s == set_values[n]
           IN  /\ s.name \in SchemaNames \cap DOMAIN func[s.request].kwargs
               /\ s.value = func[s.request].kwargs[s.name]
    /\ \A c \in 1..Len(adapter_calls) :
           LET call == adapter_calls[c]
               given == func[call.request].kwargs
               bound == SetValuesOf(call.request)
           IN  /\ {call.params[j].name : j \in 1..Len(call.params)}
                      = SchemaNames \cap DOMAIN given
               /\ Len(call.params) = Cardinality(SchemaNames \cap DOMAIN given)
               /\ \A j \in 1..Len(call.params) :
                      /\ call.params[j].name \in DOMAIN given
                      /\ call.params[j].value = given[call.params[j].name]
               /\ Len(bound) = Len(call.params)
               /\ \A j \in 1..Len(bound) : bound[j].name = call.params[j].name

\* the second request names no schema parameter: nothing is bound or passed
\* for it, though the first request has bound the schema's parameter and
\* the second carries an argument the schema does not know
C28_Witness ==
    /\ Len(adapter_calls) = 2
    /\ SchemaNames = {"a"}
    /\ adapter_calls[1].params # <<>>
    /\ schema[1].value # Unset
    /\ adapter_calls[2].params = <<>>
    /\ DOMAIN func[adapter_calls[2].request].kwargs = {"m"}
    /\ SetValuesOf(adapter_calls[2].request) = <<>>

-----------------------------------------------------------------------------
(* Claims on ViewMapping                                                   *)

\* C23: ViewMapping returns {"data": []} when called with no message;
\* otherwise it serializes data() of the first view only (through the
\* serializer when one was given, else unchanged), ignores any further
\* message, and includes the key meta exactly when the first view's meta()
\* is truthy.
C23_ViewMapping ==
    mapped \notin {Idle, Pending} =>
        IF mapping_args = <<>>
        THEN mapped = [data |-> [kind |-> "list", v |-> <<>>]] /\ serializer_calls = <<>>
        ELSE LET view == mapping_args[1]
                 nonempty == view.meta.kind = "dict" /\ view.meta.keys # {}
             IN  /\ mapped.data = [kind |-> "item", v |-> AsData(view.data)]
                 /\ DOMAIN mapped = IF nonempty THEN {"data", "meta"} ELSE {"data"}
                 /\ nonempty => mapped.meta = view.meta
                 /\ serializer_calls =
                        IF message_serializer = None THEN <<>> ELSE <<view.data>>

\* a serializer, a first view with an empty dict for meta, and further views
\* that have data and meta of their own
C23_Witness ==
    /\ mapped \notin {Idle, Pending}
    /\ message_serializer = [f |-> "dump"]
    /\ Len(mapping_args) = 3
    /\ mapping_args[1].meta = [kind |-> "dict", keys |-> {}]
    /\ mapping_args[2].meta = [kind |-> "dict", keys |-> {"total"}]
    /\ mapping_args[2].data # mapping_args[1].data
    /\ DOMAIN mapped = {"data"}

C23_WitnessMeta ==
    /\ mapped \notin {Idle, Pending}
    /\ message_serializer = None
    /\ Len(mapping_args) = 1
    /\ "meta" \in DOMAIN mapped

C23_WitnessNoMessage ==
    /\ mapped \notin {Idle, Pending}
    /\ mapping_args = <<>>

-----------------------------------------------------------------------------
(* Claims on PanchoStreamHandler                                           *)

\* the positions of the errors in the stream
ErrorPositions == {n \in 1..Len(events) : EqualOrSuper("Error", events[n].cls)}

\* the positions of the events of the desired type
DesiredPositions == {n \in 1..Len(events) : EqualOrSuper(desired_event, events[n].cls)}

\* the classes the errors schema has an entry for, among cls and its ancestors
SchemaClassesOf(cls) ==
    {errors_http_schema[i].type : i \in 1..Len(errors_http_schema)}
        \cap ({cls} \cup Ancestors(cls))

\* the codes the errors schema gives the class nearest to cls in its MRO
\* that has an entry, 500 when none has
CodesFor(cls) ==
    IF SchemaClassesOf(cls) = {} THEN {500}
    ELSE LET nearest == CHOOSE c \in SchemaClassesOf(cls) :
                            \A d \in SchemaClassesOf(cls) : EqualOrSuper(d, c)
         IN  {errors_http_schema[i].code :
                  i \in {j \in 1..Len(errors_http_schema) : errors_http_schema[j].type = nearest}}

\* C30: PanchoStreamHandler scans the stream in order: at the first Error it
\* raises ResponseError (HTTP code from the first class of the error's MRO
\* that has an entry in the errors schema, else 500) without examining any
\* later message, even when a desired event came earlier; if the stream
\* holds no Error it returns the last message that is an instance of the
\* desired event type, or None when there is none.
C30_FirstErrorElseLastDesired ==
    /\ examined \in 0..Len(events)
    /\ \A n \in ErrorPositions : examined <= n
    /\ handler_outcome # Pending =>
           IF ErrorPositions # {}
           THEN LET first == CHOOSE n \in ErrorPositions : \A k \in ErrorPositions : n <= k
                IN  /\ examined = first
                    /\ handler_outcome.kind = "raised"
                    /\ handler_outcome.error = "ResponseError"
                    /\ handler_outcome.event = events[first]
                    /\ handler_outcome.http_code \in CodesFor(events[first].cls)
           ELSE /\ examined = Len(events)
                /\ handler_outcome.kind = "returned"
                /\ IF DesiredPositions = {}
                   THEN handler_outcome.v = [none |-> TRUE]
                   ELSE handler_outcome.v =
                            events[CHOOSE n \in DesiredPositions :
                                       \A k \in DesiredPositions : k <= n]

\* a desired event, then an error whose own class has no entry but whose
\* base has, then an event that is never examined
C30_Witness ==
    /\ handler_outcome.kind = "raised"
    /\ Len(events) = 3
    /\ events[1].cls = "PayloadMessage" /\ desired_event = "PayloadMessage"
    /\ found = events[1]
    /\ events[2].cls = "DerivedError"
    /\ errors_http_schema = <<[code |-> 400, type |-> "Error"],
                              [code |-> 404, type |-> "PayloadError"]>>
    /\ handler_outcome.http_code = 404
    /\ examined = 2

C30_WitnessDefaultCode ==
    /\ handler_outcome.kind = "raised"
    /\ events[1].cls = "PayloadError"
    /\ errors_http_schema = <<[code |-> 404, type |-> "DerivedError"]>>
    /\ handler_outcome.http_code = 500

C30_WitnessLastDesired ==
    /\ handler_outcome.kind = "returned"
    /\ Len(events) = 3
    /\ desired_event = "DerivedMessage"
    /\ DesiredPositions = {1, 2}
    /\ handler_outcome.v = events[2]

C30_WitnessNone ==
    /\ handler_outcome.kind = "returned"
    /\ Len(events) = 2
    /\ DesiredPositions = {}
    /\ handler_outcome.v = None

-----------------------------------------------------------------------------
(* Claims on JwtAuthMiddleware                                             *)

\* the request's path begins with one of the configured public paths
OnPublicPath ==
    /\ public_paths # [none |-> TRUE]
    /\ \E i \in 1..Len(public_paths.list) : IsPrefix(public_paths.list[i], request.path)

\* the request carries, as a bearer token or as the bare header value, a
\* token signed with the application's secret over a non-empty payload
CarriesValidToken ==
    /\ request.authorization # [none |-> TRUE]
    /\ request.authorization.scheme \in {"Bearer", ""}
    /\ request.authorization.credentials.kind = "jwt"
    /\ request.authorization.credentials.secret = "app-secret"
    /\ request.authorization.credentials.payload # {}

\* C29: JwtAuthMiddleware forwards a request to the next handler only if its
\* path starts with a configured public path, or it carries a bearer token
\* that decodes successfully with the application's secret to a non-empty
\* payload and the auth-context registrator returns true; in every other
\* case the access-denied response is returned and the next handler is
\* never called.
C29_ForwardsOnlyPublicOrAuthenticated ==
    auth_response # Pending =>
        /\ next_calls # <<>> => (OnPublicPath \/ (CarriesValidToken /\ registers))
        /\ next_calls # <<>> => (next_calls = <<request>> /\ auth_response.by = "call_next")
        /\ ~(OnPublicPath \/ (CarriesValidToken /\ registers)) =>
               /\ next_calls = <<>>
               /\ auth_response.status_code = 401
               /\ auth_response.by = "access_denied_response_adapter"

\* a valid token, signed with another secret, on a path that only shares
\* its first character with the public path: denied
C29_Witness ==
    /\ auth_response # Pending
    /\ public_paths = [list |-> <<<<"p", "x">>>>]
    /\ request.path = <<"p", "p">>
    /\ request.authorization =
           [scheme |-> "Bearer",
            credentials |-> [kind |-> "jwt", secret |-> "other-secret", payload |-> {"sub"}]]
    /\ registers
    /\ next_calls = <<>>
    /\ auth_response.status_code = 401

C29_WitnessForwarded ==
    /\ auth_response # Pending
    /\ ~OnPublicPath
    /\ request.authorization # [none |-> TRUE]
    /\ request.authorization.scheme = "Bearer"
    /\ next_calls = <<request>>

C29_WitnessPublic ==
    /\ auth_response # Pending
    /\ request.authorization = [none |-> TRUE]
    /\ public_paths # [none |-> TRUE]
    /\ Len(public_paths.list) = 2
    /\ next_calls = <<request>>

C29_WitnessRegistratorRefuses ==
    /\ auth_response # Pending
    /\ CarriesValidToken
    /\ ~registers
    /\ next_calls = <<>>

-----------------------------------------------------------------------------
(* Claims on the class factories                                           *)

\* the name each factory gives the class it makes for each data class
ExpectedNames ==
    [ make_request_class  |-> [SampleData |-> "SampleDataRequest",
                               OtherData  |-> "OtherDataRequest",
                               ItemData   |-> "ItemDataRequest"],
      make_response_class |-> [SampleData |-> "SampleDataResponse",
                               OtherData  |-> "OtherDataResponse",
                               ItemData   |-> "ItemDataResponse"] ]

\* C21: each call of make_request_class / make_response_class returns a new
\* type object, distinct from the result of every other call even with the
\* same input type, named <InputName>Request / <InputName>Response,
\* subclassing RequestModel / ResponseModel, with field data annotated as
\* the given input type.
C21_FactoriesMakeNewClasses ==
    /\ \A i, j \in 1..Len(created) :
           i # j => created[i].returned.id # created[j].returned.id
    /\ \A i \in 1..Len(created) :
           LET made == created[i].returned
           IN  /\ made.name = ExpectedNames[created[i].call][created[i].data_class]
               /\ made.bases = IF created[i].call = "make_request_class"
                                THEN <<"RequestModel">> ELSE <<"ResponseModel">>
               /\ DOMAIN made.annotations = {"data"}
               /\ made.annotations.data = created[i].data_class

\* the same factory called twice with the same type, and the other factory
C21_Witness ==
    /\ Len(created) = 3
    /\ created[1].call = "make_response_class"
    /\ created[2].call = "make_response_class"
    /\ created[1].data_class = created[2].data_class
    /\ created[1].returned.name = created[2].returned.name
    /\ created[3].call = "make_request_class"

====
